---- MODULE Spec2Model ----
(***************************************************************************)
(* SkyLand: the city simulation of App.tsx (tick engine, grid store,       *)
(* treasury, governance votes, token state) as a state machine.            *)
(*                                                                         *)
(* Numbers.  The program computes in JavaScript doubles.  The model keeps  *)
(* every real quantity as an exact fixed-point integer:                    *)
(*   money                 whole units of city cash                        *)
(*   population            hundredths of a person        (PopUnit)         *)
(*   taxRate, growthRate   tenths                        (RateUnit)        *)
(*   skyBalance, stakedSky 1/100000 of a SKY token       (TokenUnit)       *)
(*   skyPrice              halves of a unit of city cash (PriceUnit)       *)
(* ExactArithmetic states that no division of the model ever truncates on  *)
(* a reachable state, so the fixed-point values are the exact reals.       *)
(*                                                                         *)
(* React.  A state setter queues an update; the component then renders and *)
(* the "sync refs" effects copy the rendered state into the refs.  A       *)
(* handler is written here as the updates it queues, reading refs and      *)
(* render closures (the *Ref variables) where the code reads them and the  *)
(* latest state where the code uses a functional updater.  Render is the   *)
(* commit that follows: in the specifications below every handler is       *)
(* followed by its render within the same step.                            *)
(***************************************************************************)
EXTENDS Integers, Sequences, FiniteSets, TLC

\* ------------------------------------------------------------------ bounds
\* ticks are taken while stats.day < MaxDay
MaxDay == 4
\* upgrades are taken while the tile's level < MaxLevel
MaxLevel == 3
\* grid writes (place, demolish, upgrade) are taken while gridWrites < MaxWrites
MaxWrites == 3
\* SpecCity takes steps while steps < MaxSteps
MaxSteps == 5
\* SpecDao takes steps while steps < MaxDaoSteps
MaxDaoSteps == 8

\* --------------------------------------------------------------- constants
GRID_SIZE == 15
TICK_RATE_MS == 2000
INITIAL_MONEY == 1000
\* fixed-point units (see the header)
PopUnit == 100
RateUnit == 10
TokenUnit == 100000
PriceUnit == 2

\* null (an empty slot)
NULL == <<>>

BuildingType ==
  {"None", "Road", "Residential", "Commercial", "Industrial", "Park",
   "School", "Hospital", "Entertainment"}

BUILDINGS ==
  [t \in BuildingType |->
     CASE t = "None"          -> [cost |-> 0,   name |-> "Bulldoze", popGen |-> 0,  incomeGen |-> 0]
       [] t = "Road"          -> [cost |-> 10,  name |-> "Road",     popGen |-> 0,  incomeGen |-> 0]
       [] t = "Residential"   -> [cost |-> 100, name |-> "House",    popGen |-> 5,  incomeGen |-> 0]
       [] t = "Commercial"    -> [cost |-> 200, name |-> "Shop",     popGen |-> 0,  incomeGen |-> 15]
       [] t = "Industrial"    -> [cost |-> 400, name |-> "Factory",  popGen |-> 0,  incomeGen |-> 40]
       [] t = "Park"          -> [cost |-> 50,  name |-> "Park",     popGen |-> 1,  incomeGen |-> 0]
       [] t = "School"        -> [cost |-> 500, name |-> "School",   popGen |-> 10, incomeGen |-> 0 - 5]
       [] t = "Hospital"      -> [cost |-> 800, name |-> "Hospital", popGen |-> 15, incomeGen |-> 0 - 10]
       [] t = "Entertainment" -> [cost |-> 600, name |-> "Cinema",   popGen |-> 2,  incomeGen |-> 25]]

Coords == (0 .. GRID_SIZE - 1) \X (0 .. GRID_SIZE - 1)

\* ------------------------------------------------------------------ helpers
Min(a, b) == IF a < b THEN a ELSE b
Max(a, b) == IF a > b THEN a ELSE b

RECURSIVE Pow(_, _)
Pow(b, e) == IF e = 0 THEN 1 ELSE b * Pow(b, e - 1)

\* mutant: the tiles store their coordinates swapped
createInitialGridTransposed ==
  [p \in Coords |-> [x |-> p[2], y |-> p[1], buildingType |-> "None", level |-> 1]]

\* the grid of createInitialGrid: one empty level-1 tile per coordinate
createInitialGrid ==
  [p \in Coords |-> [x |-> p[1], y |-> p[2], buildingType |-> "None", level |-> 1]]

\* tile.level || 1
LevelOf(tile) == IF tile.level = 0 THEN 1 ELSE tile.level

Occupied(g) == {p \in Coords : g[p].buildingType # "None"}

RECURSIVE SumIncome(_, _)
SumIncome(g, S) ==
  IF S = {} THEN 0
  ELSE LET p == CHOOSE q \in S : TRUE
       IN BUILDINGS[g[p].buildingType].incomeGen * LevelOf(g[p]) + SumIncome(g, S \ {p})

RECURSIVE SumPop(_, _)
SumPop(g, S) ==
  IF S = {} THEN 0
  ELSE LET p == CHOOSE q \in S : TRUE
       IN BUILDINGS[g[p].buildingType].popGen * LevelOf(g[p]) + SumPop(g, S \ {p})

\* mutant: upkeep (a negative total) is never charged
DailyIncomeNoUpkeep(g, mods) ==
  Max(0, (SumIncome(g, Occupied(g)) * mods.taxRate) \div RateUnit)

\* dailyIncome after the tax modifier (whole units)
DailyIncome(g, mods) == (SumIncome(g, Occupied(g)) * mods.taxRate) \div RateUnit

\* mutant: the bonus is 1 + stakedSky / 100
StakeBonusPercent(staked) == 1000 + 10 * (staked \div TokenUnit)

\* stakeBonus = 1 + stakedSky / 1000, as a numerator over 1000
StakeBonus(staked) == 1000 + staked \div TokenUnit

\* mutant: the staking bonus is applied to any staked amount
DailyPopGrowthAnyStake(g, mods, w3) ==
  LET base == SumPop(g, Occupied(g)) * mods.growthRate * (PopUnit \div RateUnit)
  IN (base * StakeBonus(w3.stakedSky)) \div 1000

\* dailyPopGrowth after the growth modifier and the staking bonus (hundredths)
DailyPopGrowth(g, mods, w3) ==
  LET base == SumPop(g, Occupied(g)) * mods.growthRate * (PopUnit \div RateUnit)
  IN IF w3.stakedSky > 0 THEN (base * StakeBonus(w3.stakedSky)) \div 1000 ELSE base

RECURSIVE SumHousing(_, _)
SumHousing(g, S) ==
  IF S = {} THEN 0
  ELSE LET p == CHOOSE q \in S : TRUE
       IN 50 * LevelOf(g[p]) + SumHousing(g, S \ {p})

\* housingCap (hundredths): 50 per level of every Residential tile
HousingCap(g) ==
  PopUnit * SumHousing(g, {p \in Coords : g[p].buildingType = "Residential"})

\* buildingCounts[type] of the tick
BuildingCount(g, t) == Cardinality({p \in Coords : g[p].buildingType = t /\ t # "None"})

\* mutant: the decay of an unhoused population is not floored at 0
NewPopNoFloor(prevPop, growth, cap) ==
  LET grown == prevPop + growth
      limited == IF grown > cap THEN cap ELSE grown
  IN IF cap = 0 /\ prevPop > 0 THEN prevPop - 5 * PopUnit ELSE limited

\* mutant: growth is not limited by the housing capacity
NewPopNoLimit(prevPop, growth, cap) ==
  IF cap = 0 /\ prevPop > 0 THEN Max(0, prevPop - 5 * PopUnit) ELSE prevPop + growth

\* newPop of the setStats updater
NewPop(prevPop, growth, cap) ==
  LET grown == prevPop + growth
      limited == IF grown > cap THEN cap ELSE grown
  IN IF cap = 0 /\ prevPop > 0 THEN Max(0, prevPop - 5 * PopUnit) ELSE limited

\* mutant: the cost grows by half the base cost per level
UpgradeCostLinear(type, level) == (BUILDINGS[type].cost * 3 * level) \div 2

\* Math.floor(config.cost * Math.pow(1.5, currentLevel))
UpgradeCost(type, level) == (BUILDINGS[type].cost * Pow(3, level)) \div Pow(2, level)

\* mutant: a full feed drops its newest entry
addNewsItemKeepsOldest(feed, item) ==
  LET n == Len(feed)
      kept == IF n > 12 THEN SubSeq(feed, 1, 12) ELSE feed
  IN Append(kept, item)

\* [...prev.slice(-12), item]
addNewsItem(feed, item) ==
  LET n == Len(feed)
      kept == IF n > 12 THEN SubSeq(feed, n - 11, n) ELSE feed
  IN Append(kept, item)

\* [...prev.slice(-19), newTx]
addTransaction(txs, tx) ==
  LET n == Len(txs)
      kept == IF n > 19 THEN SubSeq(txs, n - 18, n) ELSE txs
  IN Append(kept, tx)

\* ------------------------------------------------------------------- state
VARIABLES
  \* React state of App
  gameStarted, aiEnabled, grid, stats, selectedTool, selectedTilePos,
  currentGoal, isGeneratingGoal, newsFeed, web3State, activeProposal,
  transactions, isAuditing, gameModifiers,
  \* refs (the state of the last render, as handlers and timers read it)
  gridRef, statsRef, goalRef, aiEnabledRef, web3Ref, modifiersRef,
  activeProposalRef, lastNewsTime, lastProposalTime,
  \* the environment: the clock (ms), the generation calls in flight and the
  \* audit calls made so far (open while in flight)
  now, goalFetch, newsCalls, proposalCalls, auditCalls,
  \* history: the last operation and its outcome; whether this behaviour
  \* records the two observational logs (newsFeed, transactions), which no
  \* handler ever reads; the number of grid writes so far; the stats before
  \* the last operation; the number of steps counted so far
  lastOp, recordLogs, gridWrites, prevStats, steps

stateVars ==
  <<gameStarted, aiEnabled, grid, stats, selectedTool, selectedTilePos,
    currentGoal, isGeneratingGoal, newsFeed, web3State, activeProposal,
    transactions, isAuditing, gameModifiers>>
refVars ==
  <<gridRef, statsRef, goalRef, aiEnabledRef, web3Ref, modifiersRef,
    activeProposalRef>>
envVars == <<now, goalFetch, newsCalls, proposalCalls, auditCalls>>
throttleVars == <<lastNewsTime, lastProposalTime>>
vars ==
  <<stateVars, refVars, envVars, throttleVars, lastOp, recordLogs, gridWrites,
    prevStats, steps>>

\* the state after construction (useState / useRef initial values)
InitState ==
  /\ gameStarted = FALSE
  /\ aiEnabled = TRUE
  /\ grid = createInitialGrid
  /\ stats = [money |-> INITIAL_MONEY, population |-> 0, day |-> 1]
  /\ selectedTool = "Road"
  /\ selectedTilePos = NULL
  /\ currentGoal = NULL
  /\ isGeneratingGoal = FALSE
  /\ newsFeed = <<>>
  /\ web3State = [isConnected |-> FALSE, address |-> "none", skyBalance |-> 0,
                  stakedSky |-> 0, skyPrice |-> 50 * PriceUnit,
                  blockNumber |-> 1024500]
  /\ activeProposal = NULL
  /\ transactions = <<>>
  /\ isAuditing = FALSE
  /\ gameModifiers = [taxRate |-> RateUnit, growthRate |-> RateUnit]
  /\ gridRef = grid
  /\ statsRef = stats
  /\ goalRef = currentGoal
  /\ aiEnabledRef = aiEnabled
  /\ web3Ref = web3State
  /\ modifiersRef = gameModifiers
  /\ activeProposalRef = activeProposal
  /\ lastNewsTime = 0
  /\ lastProposalTime = 0
  \* Date.now() is far past both windows when the page loads
  /\ now = 60000
  /\ goalFetch = [phase |-> "idle", retryAt |-> 0]
  /\ newsCalls = 0
  /\ proposalCalls = {}
  /\ auditCalls = <<>>
  /\ lastOp = "init"
  /\ gridWrites = 0
  /\ prevStats = stats
  /\ steps = 0

\* the commit after a handler: the "sync refs" effects
SyncRefs ==
  /\ prevStats' = stats
  /\ gridWrites' = IF grid' # grid THEN gridWrites + 1 ELSE gridWrites
  /\ gridRef' = grid'
  /\ statsRef' = stats'
  /\ goalRef' = currentGoal'
  /\ aiEnabledRef' = aiEnabled'
  /\ web3Ref' = web3State'
  /\ modifiersRef' = gameModifiers'
  /\ activeProposalRef' = activeProposal'

Render == SyncRefs /\ UNCHANGED steps

\* the refs hold the state of the last render
Synced ==
  /\ gridRef = grid
  /\ statsRef = stats
  /\ goalRef = currentGoal
  /\ aiEnabledRef = aiEnabled
  /\ web3Ref = web3State
  /\ modifiersRef = gameModifiers
  /\ activeProposalRef = activeProposal

\* a handler has queued its updates and the render has not happened yet: the
\* refs keep the state of the last render
Queued ==
  /\ prevStats' = stats
  /\ gridWrites' = IF grid' # grid THEN gridWrites + 1 ELSE gridWrites
  /\ UNCHANGED <<refVars, steps>>

\* the render of the queued updates, with its "sync refs" effects
AsyncRender ==
  /\ ~Synced
  /\ gridRef' = grid
  /\ statsRef' = stats
  /\ goalRef' = currentGoal
  /\ aiEnabledRef' = aiEnabled
  /\ web3Ref' = web3State
  /\ modifiersRef' = gameModifiers
  /\ activeProposalRef' = activeProposal
  /\ UNCHANGED <<stateVars, envVars, throttleVars, lastOp, recordLogs,
                 gridWrites, prevStats, steps>>

\* no division of the model truncates in the current state: the tick's income
\* and growth and the staked amount are exact in the model's units
ExactArithmetic ==
  /\ (SumIncome(grid, Occupied(grid)) * gameModifiers.taxRate) % RateUnit = 0
  /\ web3State.stakedSky % TokenUnit = 0
  /\ (SumPop(grid, Occupied(grid)) * gameModifiers.growthRate * (PopUnit \div RateUnit)
        * StakeBonus(web3State.stakedSky)) % 1000 = 0
  /\ web3State.skyPrice % PriceUnit = 0

\* a render that is counted as a step of a bounded exploration
CountedRender(max) == steps < max /\ SyncRefs /\ steps' = steps + 1

News(text, type) ==
  newsFeed' = IF recordLogs
              THEN addNewsItem(newsFeed, [text |-> text, type |-> type])
              ELSE newsFeed

NewTx(type, details) ==
  [type |-> type, details |-> details, block |-> web3Ref.blockNumber]

\* ---------------------------------------------------------------- handlers

\* handleStart, with the two effects its render starts: the welcome item and,
\* when AI is enabled, the first fetchNewGoal
handleStart(enabled) ==
  /\ ~gameStarted
  /\ aiEnabled' = enabled
  /\ gameStarted' = TRUE
  /\ News("welcome", "positive")
  /\ IF enabled
     THEN /\ isGeneratingGoal' = TRUE
          /\ goalFetch' = [phase |-> "calling", retryAt |-> 0]
     ELSE UNCHANGED <<isGeneratingGoal, goalFetch>>
  /\ lastOp' = "start"
  /\ UNCHANGED <<grid, stats, selectedTool, selectedTilePos, currentGoal,
                 web3State, activeProposal, transactions, isAuditing,
                 gameModifiers, now, newsCalls, proposalCalls, auditCalls,
                 throttleVars, recordLogs>>

\* mutant: changing the tool keeps the selected tile
handleSelectToolKeepsSelection(tool) ==
  /\ selectedTool' = tool
  /\ lastOp' = "tool"
  /\ UNCHANGED <<gameStarted, aiEnabled, grid, stats, selectedTilePos,
                 currentGoal, isGeneratingGoal, newsFeed, web3State,
                 activeProposal, transactions, isAuditing, gameModifiers,
                 envVars, throttleVars, recordLogs>>

handleSelectTool(tool) ==
  /\ selectedTool' = tool
  /\ selectedTilePos' = NULL
  /\ lastOp' = "tool"
  /\ UNCHANGED <<gameStarted, aiEnabled, grid, stats, currentGoal,
                 isGeneratingGoal, newsFeed, web3State, activeProposal,
                 transactions, isAuditing, gameModifiers, envVars,
                 throttleVars, recordLogs>>

onCloseSelection ==
  /\ selectedTilePos' = NULL
  /\ lastOp' = "close"
  /\ UNCHANGED <<gameStarted, aiEnabled, grid, stats, selectedTool, currentGoal,
                 isGeneratingGoal, newsFeed, web3State, activeProposal,
                 transactions, isAuditing, gameModifiers, envVars,
                 throttleVars, recordLogs>>

InRange(x, y) == ~(x < 0 \/ x >= GRID_SIZE \/ y < 0 \/ y >= GRID_SIZE)

\* mutant: a demolished tile keeps its level
BulldozeKeepsLevel(x, y) ==
  LET currentTile == gridRef[<<x, y>>]
  IN IF currentTile.buildingType # "None"
     THEN IF statsRef.money >= 5
          THEN /\ selectedTilePos' =
                    IF selectedTilePos = <<x, y>> THEN NULL ELSE selectedTilePos
               /\ grid' = [gridRef EXCEPT ![<<x, y>>] =
                             [currentTile EXCEPT !.buildingType = "None"]]
               /\ stats' = [stats EXCEPT !.money = stats.money - 5]
               /\ lastOp' = "demolish"
               /\ UNCHANGED newsFeed
          ELSE /\ News("Cannot afford demolition costs.", "negative")
               /\ lastOp' = "demolishRejected"
               /\ UNCHANGED <<grid, stats, selectedTilePos>>
     ELSE /\ lastOp' = "clickIgnored"
          /\ UNCHANGED <<grid, stats, selectedTilePos, newsFeed>>

\* the "Bulldoze logic" branch of handleTileClick
Bulldoze(x, y) ==
  LET currentTile == gridRef[<<x, y>>]
      demolishCost == 5
  IN IF currentTile.buildingType # "None"
     THEN IF statsRef.money >= demolishCost
          THEN /\ selectedTilePos' =
                    IF selectedTilePos = <<x, y>> THEN NULL ELSE selectedTilePos
               /\ grid' = [gridRef EXCEPT ![<<x, y>>] =
                             [currentTile EXCEPT !.buildingType = "None", !.level = 1]]
               /\ stats' = [stats EXCEPT !.money = stats.money - demolishCost]
               /\ lastOp' = "demolish"
               /\ UNCHANGED newsFeed
          ELSE /\ News("Cannot afford demolition costs.", "negative")
               /\ lastOp' = "demolishRejected"
               /\ UNCHANGED <<grid, stats, selectedTilePos>>
     ELSE /\ lastOp' = "clickIgnored"
          /\ UNCHANGED <<grid, stats, selectedTilePos, newsFeed>>

\* mutant: a building is placed on an empty tile whatever the treasury holds
PlacementUnfunded(x, y) ==
  LET currentTile == gridRef[<<x, y>>]
      buildingConfig == BUILDINGS[selectedTool]
  IN IF currentTile.buildingType = "None"
     THEN /\ selectedTilePos' = NULL
          /\ stats' = [stats EXCEPT !.money = stats.money - buildingConfig.cost]
          /\ grid' = [gridRef EXCEPT ![<<x, y>>] =
                        [currentTile EXCEPT !.buildingType = selectedTool, !.level = 1]]
          /\ lastOp' = "place"
          /\ UNCHANGED newsFeed
     ELSE /\ lastOp' = "clickIgnored"
          /\ UNCHANGED <<grid, stats, selectedTilePos, newsFeed>>

\* the "Placement Logic" branch of handleTileClick
Placement(x, y) ==
  LET currentTile == gridRef[<<x, y>>]
      buildingConfig == BUILDINGS[selectedTool]
  IN IF currentTile.buildingType = "None"
     THEN IF statsRef.money >= buildingConfig.cost
          THEN /\ selectedTilePos' = NULL
               /\ stats' = [stats EXCEPT !.money = stats.money - buildingConfig.cost]
               /\ grid' = [gridRef EXCEPT ![<<x, y>>] =
                             [currentTile EXCEPT !.buildingType = selectedTool, !.level = 1]]
               /\ lastOp' = "place"
               /\ UNCHANGED newsFeed
          ELSE /\ News("Treasury insufficient", "negative")
               /\ lastOp' = "placeRejected"
               /\ UNCHANGED <<grid, stats, selectedTilePos>>
     ELSE \* an occupied Road under a build tool falls through every branch
          /\ lastOp' = "clickIgnored"
          /\ UNCHANGED <<grid, stats, selectedTilePos, newsFeed>>

\* mutant: a Road is selected like any other building
handleTileClickSelectsRoads(x, y) ==
  /\ IF ~gameStarted \/ ~InRange(x, y)
     THEN /\ lastOp' = "clickIgnored"
          /\ UNCHANGED <<grid, stats, selectedTilePos, newsFeed>>
     ELSE IF /\ selectedTool # "None"
             /\ gridRef[<<x, y>>].buildingType # "None"
          THEN /\ selectedTilePos' = <<x, y>>
               /\ lastOp' = "select"
               /\ UNCHANGED <<grid, stats, newsFeed>>
          ELSE IF selectedTool = "None"
               THEN Bulldoze(x, y)
               ELSE Placement(x, y)
  /\ UNCHANGED <<gameStarted, aiEnabled, selectedTool, currentGoal,
                 isGeneratingGoal, web3State, activeProposal, transactions,
                 isAuditing, gameModifiers, envVars, throttleVars, recordLogs>>

handleTileClick(x, y) ==
  /\ IF ~gameStarted \/ ~InRange(x, y)
     THEN /\ lastOp' = "clickIgnored"
          /\ UNCHANGED <<grid, stats, selectedTilePos, newsFeed>>
     ELSE IF /\ selectedTool # "None"
             /\ gridRef[<<x, y>>].buildingType # "None"
             /\ gridRef[<<x, y>>].buildingType # "Road"
          THEN /\ selectedTilePos' = <<x, y>>
               /\ lastOp' = "select"
               /\ UNCHANGED <<grid, stats, newsFeed>>
          ELSE IF selectedTool = "None"
               THEN Bulldoze(x, y)
               ELSE Placement(x, y)
  /\ UNCHANGED <<gameStarted, aiEnabled, selectedTool, currentGoal,
                 isGeneratingGoal, web3State, activeProposal, transactions,
                 isAuditing, gameModifiers, envVars, throttleVars, recordLogs>>

\* mutant: the cost is taken from the money of the last render
handleUpgradeStale ==
  /\ IF selectedTilePos = NULL
     THEN /\ lastOp' = "upgradeIgnored"
          /\ UNCHANGED <<grid, stats, newsFeed>>
     ELSE LET tile == gridRef[selectedTilePos]
              config == BUILDINGS[tile.buildingType]
              currentLevel == LevelOf(tile)
              upgradeCost == UpgradeCost(tile.buildingType, currentLevel)
          IN IF statsRef.money >= upgradeCost
             THEN /\ stats' = [stats EXCEPT !.money = statsRef.money - upgradeCost]
                  /\ grid' = [gridRef EXCEPT ![selectedTilePos] =
                                [tile EXCEPT !.level = currentLevel + 1]]
                  /\ News("Upgraded", "positive")
                  /\ lastOp' = "upgrade"
             ELSE /\ News("Insufficient funds for upgrade.", "negative")
                  /\ lastOp' = "upgradeRejected"
                  /\ UNCHANGED <<grid, stats>>
  /\ UNCHANGED <<gameStarted, aiEnabled, selectedTool, selectedTilePos,
                 currentGoal, isGeneratingGoal, web3State, activeProposal,
                 transactions, isAuditing, gameModifiers, envVars,
                 throttleVars, recordLogs>>

handleUpgrade ==
  /\ IF selectedTilePos = NULL
     THEN /\ lastOp' = "upgradeIgnored"
          /\ UNCHANGED <<grid, stats, newsFeed>>
     ELSE LET tile == gridRef[selectedTilePos]
              config == BUILDINGS[tile.buildingType]
              currentLevel == LevelOf(tile)
              upgradeCost == UpgradeCost(tile.buildingType, currentLevel)
          IN IF statsRef.money >= upgradeCost
             THEN /\ stats' = [stats EXCEPT !.money = stats.money - upgradeCost]
                  /\ grid' = [gridRef EXCEPT ![selectedTilePos] =
                                [tile EXCEPT !.level = currentLevel + 1]]
                  /\ News("Upgraded", "positive")
                  /\ lastOp' = "upgrade"
             ELSE /\ News("Insufficient funds for upgrade.", "negative")
                  /\ lastOp' = "upgradeRejected"
                  /\ UNCHANGED <<grid, stats>>
  /\ UNCHANGED <<gameStarted, aiEnabled, selectedTool, selectedTilePos,
                 currentGoal, isGeneratingGoal, web3State, activeProposal,
                 transactions, isAuditing, gameModifiers, envVars,
                 throttleVars, recordLogs>>

\* mutant: the target must be exceeded
GoalMetStrict(goal, newStats, g) ==
  \/ goal.targetType = "money" /\ newStats.money > goal.targetValue
  \/ goal.targetType = "population"
       /\ newStats.population > goal.targetValue * PopUnit
  \/ /\ goal.targetType = "building_count"
     /\ goal.buildingType # "undefined"
     /\ BuildingCount(g, goal.buildingType) > goal.targetValue

\* isMet of the goal check, on the tick's new stats and building counts
GoalMet(goal, newStats, g) ==
  \/ goal.targetType = "money" /\ newStats.money >= goal.targetValue
  \/ goal.targetType = "population"
       /\ newStats.population >= goal.targetValue * PopUnit
  \/ /\ goal.targetType = "building_count"
     /\ goal.buildingType # "undefined"
     /\ BuildingCount(g, goal.buildingType) >= goal.targetValue

\* mutant: a tick skips a day
TickStatsSkipsDay(prev, g, mods, w3) ==
  [money      |-> prev.money + DailyIncome(g, mods),
   population |-> NewPop(prev.population, DailyPopGrowth(g, mods, w3), HousingCap(g)),
   day        |-> prev.day + 2]

\* the stats snapshot the setStats updater of a tick returns
TickStats(prev, g, mods, w3) ==
  [money      |-> prev.money + DailyIncome(g, mods),
   population |-> NewPop(prev.population, DailyPopGrowth(g, mods, w3), HousingCap(g)),
   day        |-> prev.day + 1]

MineBlockNoFloor(prev, population, d) ==
  [prev EXCEPT
     !.skyBalance = prev.skyBalance + population * (TokenUnit \div (PopUnit * 1000)),
     !.skyPrice = prev.skyPrice + d,
     !.blockNumber = prev.blockNumber + 1]

\* the setWeb3State updater of a tick; d is (Math.random() - 0.5) * 2
MineBlock(prev, population, d) ==
  [prev EXCEPT
     !.skyBalance = prev.skyBalance + population * (TokenUnit \div (PopUnit * 1000)),
     !.skyPrice = Max(10 * PriceUnit, prev.skyPrice + d),
     !.blockNumber = prev.blockNumber + 1]

fetchNewsUnthrottled(t, roll) ==
  IF ~aiEnabledRef \/ ~roll
  THEN UNCHANGED <<lastNewsTime, newsCalls>>
  ELSE /\ lastNewsTime' = t
       /\ newsCalls' = newsCalls + 1

\* fetchNews as called by the tick at time t; roll is Math.random() <= 0.01
fetchNews(t, roll) ==
  IF t - lastNewsTime < 60000 \/ ~aiEnabledRef \/ ~roll
  THEN UNCHANGED <<lastNewsTime, newsCalls>>
  ELSE /\ lastNewsTime' = t
       /\ newsCalls' = newsCalls + 1

\* fetchProposal as called by the tick at time t; roll is Math.random() <= 0.1
fetchProposal(t, roll) ==
  IF \/ t - lastProposalTime < 30000
     \/ ~web3Ref.isConnected
     \/ activeProposalRef # NULL
     \/ ~roll
  THEN UNCHANGED <<lastProposalTime, proposalCalls>>
  ELSE /\ lastProposalTime' = t
       /\ proposalCalls' = proposalCalls \cup {[src |-> "tick", day |-> statsRef.day, at |-> t]}

TickExpiresProposal(d, newsRoll, proposalRoll) ==
  /\ gameStarted
  /\ now' = now + TICK_RATE_MS
  /\ stats' = TickStats(stats, gridRef, modifiersRef, web3Ref)
  /\ currentGoal' =
       IF /\ aiEnabledRef
          /\ goalRef # NULL
          /\ ~goalRef.completed
          /\ GoalMet(goalRef, stats', gridRef)
       THEN [goalRef EXCEPT !.completed = TRUE]
       ELSE currentGoal
  /\ web3State' =
       IF web3Ref.isConnected
       THEN MineBlock(web3State, statsRef.population, d)
       ELSE web3State
  /\ fetchNews(now', newsRoll)
  /\ fetchProposal(now', proposalRoll)
  /\ activeProposal' =
       IF activeProposal = NULL THEN NULL
       ELSE IF stats'.day > activeProposal.expiresAt THEN NULL ELSE activeProposal
  /\ lastOp' = "tick"
  /\ UNCHANGED <<gameStarted, aiEnabled, grid, selectedTool, selectedTilePos,
                 isGeneratingGoal, newsFeed, transactions,
                 isAuditing, gameModifiers, goalFetch, auditCalls, recordLogs>>

\* mutant: every tick recomputes the completed flag of the goal
TickRechecksGoal(d, newsRoll, proposalRoll) ==
  /\ gameStarted
  /\ now' = now + TICK_RATE_MS
  /\ stats' = TickStats(stats, gridRef, modifiersRef, web3Ref)
  /\ currentGoal' =
       IF aiEnabledRef /\ goalRef # NULL
       THEN [goalRef EXCEPT !.completed = GoalMet(goalRef, stats', gridRef)]
       ELSE currentGoal
  /\ web3State' =
       IF web3Ref.isConnected
       THEN MineBlock(web3State, statsRef.population, d)
       ELSE web3State
  /\ fetchNews(now', newsRoll)
  /\ fetchProposal(now', proposalRoll)
  /\ lastOp' = "tick"
  /\ UNCHANGED <<gameStarted, aiEnabled, grid, selectedTool, selectedTilePos,
                 isGeneratingGoal, newsFeed, activeProposal, transactions,
                 isAuditing, gameModifiers, goalFetch, auditCalls, recordLogs>>

TickMinesNewPopulation(d, newsRoll, proposalRoll) ==
  /\ gameStarted
  /\ now' = now + TICK_RATE_MS
  /\ stats' = TickStats(stats, gridRef, modifiersRef, web3Ref)
  /\ currentGoal' =
       IF /\ aiEnabledRef
          /\ goalRef # NULL
          /\ ~goalRef.completed
          /\ GoalMet(goalRef, stats', gridRef)
       THEN [goalRef EXCEPT !.completed = TRUE]
       ELSE currentGoal
  /\ web3State' =
       IF web3Ref.isConnected
       THEN MineBlock(web3State, stats'.population, d)
       ELSE web3State
  /\ fetchNews(now', newsRoll)
  /\ fetchProposal(now', proposalRoll)
  /\ lastOp' = "tick"
  /\ UNCHANGED <<gameStarted, aiEnabled, grid, selectedTool, selectedTilePos,
                 isGeneratingGoal, newsFeed, activeProposal, transactions,
                 isAuditing, gameModifiers, goalFetch, auditCalls, recordLogs>>

\* one firing of the game loop's interval
Tick(d, newsRoll, proposalRoll) ==
  /\ gameStarted
  /\ now' = now + TICK_RATE_MS
  /\ stats' = TickStats(stats, gridRef, modifiersRef, web3Ref)
  /\ currentGoal' =
       IF /\ aiEnabledRef
          /\ goalRef # NULL
          /\ ~goalRef.completed
          /\ GoalMet(goalRef, stats', gridRef)
       THEN [goalRef EXCEPT !.completed = TRUE]
       ELSE currentGoal
  /\ web3State' =
       IF web3Ref.isConnected
       THEN MineBlock(web3State, statsRef.population, d)
       ELSE web3State
  /\ fetchNews(now', newsRoll)
  /\ fetchProposal(now', proposalRoll)
  /\ lastOp' = "tick"
  /\ UNCHANGED <<gameStarted, aiEnabled, grid, selectedTool, selectedTilePos,
                 isGeneratingGoal, newsFeed, activeProposal, transactions,
                 isAuditing, gameModifiers, goalFetch, auditCalls, recordLogs>>

\* ------------------------------------------------------------- goal handlers

\* fetchNewGoal up to its call of the service; generating is the
\* isGeneratingGoal of the closure that runs it
fetchNewGoal(generating) ==
  IF generating \/ ~aiEnabledRef
  THEN UNCHANGED <<isGeneratingGoal, goalFetch>>
  ELSE /\ isGeneratingGoal' = TRUE
       /\ goalFetch' = [phase |-> "calling", retryAt |-> 0]

\* { ...goalData, completed: false }; a buildingType the payload leaves out is
\* "undefined"
AdoptGoal(goalData) ==
  [targetType |-> goalData.targetType, targetValue |-> goalData.targetValue,
   buildingType |-> goalData.buildingType, reward |-> goalData.reward,
   completed |-> FALSE]

GoalResultNoRetry(goalData) ==
  /\ goalFetch.phase = "calling"
  /\ IF goalData # NULL
     THEN /\ currentGoal' = AdoptGoal(goalData)
          /\ goalFetch' = [phase |-> "idle", retryAt |-> 0]
     ELSE /\ UNCHANGED currentGoal
          /\ goalFetch' = [phase |-> "idle", retryAt |-> 0]
  /\ isGeneratingGoal' = FALSE
  /\ lastOp' = IF goalData # NULL THEN "goalResult" ELSE "goalFailed"
  /\ UNCHANGED <<gameStarted, aiEnabled, grid, stats, selectedTool,
                 selectedTilePos, newsFeed, web3State, activeProposal,
                 transactions, isAuditing, gameModifiers, now, newsCalls,
                 proposalCalls, auditCalls, throttleVars, recordLogs>>

\* generateCityGoal returns: goalData is the parsed payload, or NULL on a
\* transport error, an empty body or a body that is not JSON
GoalResult(goalData) ==
  /\ goalFetch.phase = "calling"
  /\ IF goalData # NULL
     THEN /\ currentGoal' = AdoptGoal(goalData)
          /\ goalFetch' = [phase |-> "idle", retryAt |-> 0]
     ELSE /\ UNCHANGED currentGoal
          /\ goalFetch' = IF aiEnabledRef
                          THEN [phase |-> "retry", retryAt |-> now + 60000]
                          ELSE [phase |-> "idle", retryAt |-> 0]
  /\ isGeneratingGoal' = FALSE
  /\ lastOp' = IF goalData # NULL THEN "goalResult" ELSE "goalFailed"
  /\ UNCHANGED <<gameStarted, aiEnabled, grid, stats, selectedTool,
                 selectedTilePos, newsFeed, web3State, activeProposal,
                 transactions, isAuditing, gameModifiers, now, newsCalls,
                 proposalCalls, auditCalls, throttleVars, recordLogs>>

\* the setTimeout(fetchNewGoal, 60000) of a failed request fires; the closure
\* it runs was created while isGeneratingGoal was false
GoalRetry ==
  /\ goalFetch.phase = "retry"
  /\ now >= goalFetch.retryAt
  /\ IF aiEnabledRef
     THEN fetchNewGoal(FALSE)
     ELSE /\ goalFetch' = [phase |-> "idle", retryAt |-> 0]
          /\ UNCHANGED isGeneratingGoal
  /\ lastOp' = "goalRetry"
  /\ UNCHANGED <<gameStarted, aiEnabled, grid, stats, selectedTool,
                 selectedTilePos, currentGoal, newsFeed, web3State,
                 activeProposal, transactions, isAuditing, gameModifiers, now,
                 newsCalls, proposalCalls, auditCalls, throttleVars, recordLogs>>

\* mutant: the claimed goal stays in the slot
handleClaimRewardKeepsGoal ==
  /\ IF goalRef # NULL /\ goalRef.completed
     THEN /\ stats' = [stats EXCEPT !.money = stats.money + goalRef.reward]
          /\ News("Goal achieved!", "positive")
          /\ fetchNewGoal(isGeneratingGoal)
          /\ lastOp' = "claim"
          /\ UNCHANGED currentGoal
     ELSE /\ lastOp' = "claimIgnored"
          /\ UNCHANGED <<stats, newsFeed, currentGoal, isGeneratingGoal, goalFetch>>
  /\ UNCHANGED <<gameStarted, aiEnabled, grid, selectedTool, selectedTilePos,
                 web3State, activeProposal, transactions, isAuditing,
                 gameModifiers, now, newsCalls, proposalCalls, auditCalls,
                 throttleVars, recordLogs>>

handleClaimReward ==
  /\ IF goalRef # NULL /\ goalRef.completed
     THEN /\ stats' = [stats EXCEPT !.money = stats.money + goalRef.reward]
          /\ News("Goal achieved!", "positive")
          /\ currentGoal' = NULL
          /\ fetchNewGoal(isGeneratingGoal)
          /\ lastOp' = "claim"
     ELSE /\ lastOp' = "claimIgnored"
          /\ UNCHANGED <<stats, newsFeed, currentGoal, isGeneratingGoal, goalFetch>>
  /\ UNCHANGED <<gameStarted, aiEnabled, grid, selectedTool, selectedTilePos,
                 web3State, activeProposal, transactions, isAuditing,
                 gameModifiers, now, newsCalls, proposalCalls, auditCalls,
                 throttleVars, recordLogs>>

\* generateNewsEvent returns: item is the news item, or NULL on failure
NewsResult(item) ==
  /\ newsCalls > 0
  /\ newsCalls' = newsCalls - 1
  /\ IF item # NULL THEN News(item.text, item.type) ELSE UNCHANGED newsFeed
  /\ lastOp' = "newsResult"
  /\ UNCHANGED <<gameStarted, aiEnabled, grid, stats, selectedTool,
                 selectedTilePos, currentGoal, isGeneratingGoal, web3State,
                 activeProposal, transactions, isAuditing, gameModifiers, now,
                 goalFetch, proposalCalls, auditCalls, throttleVars, recordLogs>>

\* ------------------------------------------------------------ token handlers

\* amount * price in whole units of city cash
SwapCost(amount, price) == ((amount \div TokenUnit) * price) \div PriceUnit

Txs(list) ==
  transactions' = IF recordLogs
                  THEN IF Len(list) = 1
                       THEN addTransaction(transactions, list[1])
                       ELSE addTransaction(addTransaction(transactions, list[1]), list[2])
                  ELSE transactions

handleConnectWallet ==
  /\ web3State' = [web3State EXCEPT !.isConnected = TRUE,
                                    !.address = "0x71C...9A23",
                                    !.skyBalance = 100 * TokenUnit]
  /\ News("Wallet connected.", "positive")
  /\ proposalCalls' =
       IF activeProposalRef = NULL
       THEN proposalCalls \cup {[src |-> "connect", day |-> statsRef.day, at |-> now]}
       ELSE proposalCalls
  /\ lastOp' = "connect"
  /\ UNCHANGED <<gameStarted, aiEnabled, grid, stats, selectedTool,
                 selectedTilePos, currentGoal, isGeneratingGoal, activeProposal,
                 transactions, isAuditing, gameModifiers, now, goalFetch,
                 newsCalls, auditCalls, throttleVars, recordLogs>>

handleSwap(direction, amount) ==
  LET price == web3Ref.skyPrice
      cost == SwapCost(amount, price)
  IN /\ IF direction = "buy"
        THEN IF statsRef.money >= cost
             THEN /\ stats' = [stats EXCEPT !.money = stats.money - cost]
                  /\ web3State' = [web3State EXCEPT
                                     !.skyBalance = web3State.skyBalance + amount]
                  /\ Txs(<<NewTx("SWAP", "Buy")>>)
                  /\ News("Swapped", "neutral")
                  /\ lastOp' = "buy"
             ELSE /\ lastOp' = "buyRejected"
                  /\ UNCHANGED <<stats, web3State, transactions, newsFeed>>
        ELSE IF web3Ref.skyBalance >= amount
             THEN /\ stats' = [stats EXCEPT !.money = stats.money + cost]
                  /\ web3State' = [web3State EXCEPT
                                     !.skyBalance = web3State.skyBalance - amount]
                  /\ Txs(<<NewTx("SWAP", "Sell")>>)
                  /\ News("Sold", "neutral")
                  /\ lastOp' = "sell"
             ELSE /\ lastOp' = "sellRejected"
                  /\ UNCHANGED <<stats, web3State, transactions, newsFeed>>
     /\ UNCHANGED <<gameStarted, aiEnabled, grid, selectedTool, selectedTilePos,
                    currentGoal, isGeneratingGoal, activeProposal, isAuditing,
                    gameModifiers, envVars, throttleVars, recordLogs>>

handleStake(amount) ==
  /\ IF web3Ref.skyBalance >= amount
     THEN /\ web3State' = [web3State EXCEPT
                             !.skyBalance = web3State.skyBalance - amount,
                             !.stakedSky = web3State.stakedSky + amount]
          /\ Txs(<<NewTx("STAKE", "Staked")>>)
          /\ lastOp' = "stake"
     ELSE /\ lastOp' = "stakeRejected"
          /\ UNCHANGED <<web3State, transactions>>
  /\ UNCHANGED <<gameStarted, aiEnabled, grid, stats, selectedTool,
                 selectedTilePos, currentGoal, isGeneratingGoal, newsFeed,
                 activeProposal, isAuditing, gameModifiers, envVars,
                 throttleVars, recordLogs>>

handleUnstake(amount) ==
  /\ IF web3Ref.stakedSky >= amount
     THEN /\ web3State' = [web3State EXCEPT
                             !.skyBalance = web3State.skyBalance + amount,
                             !.stakedSky = web3State.stakedSky - amount]
          /\ Txs(<<NewTx("UNSTAKE", "Unstaked")>>)
          /\ lastOp' = "unstake"
     ELSE /\ lastOp' = "unstakeRejected"
          /\ UNCHANGED <<web3State, transactions>>
  /\ UNCHANGED <<gameStarted, aiEnabled, grid, stats, selectedTool,
                 selectedTilePos, currentGoal, isGeneratingGoal, newsFeed,
                 activeProposal, isAuditing, gameModifiers, envVars,
                 throttleVars, recordLogs>>

\* ------------------------------------------------------- governance handlers

BuildProposalNoTruncate(data, day, id) ==
  IF data # NULL /\ Len(data.options) >= 1
  THEN [id |-> id, title |-> data.title, options |-> data.options,
        expiresAt |-> day + 5, votes |-> <<0, 0>>, status |-> "active",
        audit |-> NULL]
  ELSE NULL

\* what generateGovernanceProposal builds from a parsed payload, for the stats
\* snapshot of day; id stands for `prop-${Date.now()}`
BuildProposal(data, day, id) ==
  IF data # NULL /\ Len(data.options) >= 2
  THEN [id |-> id, title |-> data.title, options |-> SubSeq(data.options, 1, 2),
        expiresAt |-> day + 5, votes |-> <<0, 0>>, status |-> "active",
        audit |-> NULL]
  ELSE NULL

\* generateGovernanceProposal returns for call c: data is the parsed payload,
\* or NULL on failure
ProposalResult(c, data) ==
  /\ c \in proposalCalls
  /\ proposalCalls' = proposalCalls \ {c}
  /\ LET proposal == BuildProposal(data, c.day, <<now, c.src>>)
     IN /\ activeProposal' = IF proposal # NULL THEN proposal ELSE activeProposal
        /\ lastOp' = IF proposal # NULL THEN "proposalResult" ELSE "proposalFailed"
  /\ UNCHANGED <<gameStarted, aiEnabled, grid, stats, selectedTool,
                 selectedTilePos, currentGoal, isGeneratingGoal, newsFeed,
                 web3State, transactions, isAuditing, gameModifiers, now,
                 goalFetch, newsCalls, auditCalls, throttleVars, recordLogs>>

handleAuditReentrant ==
  /\ IF activeProposalRef = NULL
     THEN /\ lastOp' = "auditIgnored"
          /\ UNCHANGED <<isAuditing, auditCalls>>
     ELSE /\ isAuditing' = TRUE
          /\ auditCalls' = Append(auditCalls, [id |-> activeProposalRef.id, open |-> TRUE])
          /\ lastOp' = "audit"
  /\ UNCHANGED <<gameStarted, aiEnabled, grid, stats, selectedTool,
                 selectedTilePos, currentGoal, isGeneratingGoal, newsFeed,
                 web3State, activeProposal, transactions, gameModifiers, now,
                 goalFetch, newsCalls, proposalCalls, throttleVars, recordLogs>>

handleAudit ==
  /\ IF activeProposalRef = NULL \/ isAuditing
     THEN /\ lastOp' = "auditIgnored"
          /\ UNCHANGED <<isAuditing, auditCalls>>
     ELSE /\ isAuditing' = TRUE
          /\ auditCalls' = Append(auditCalls, [id |-> activeProposalRef.id, open |-> TRUE])
          /\ lastOp' = "audit"
  /\ UNCHANGED <<gameStarted, aiEnabled, grid, stats, selectedTool,
                 selectedTilePos, currentGoal, isGeneratingGoal, newsFeed,
                 web3State, activeProposal, transactions, gameModifiers, now,
                 goalFetch, newsCalls, proposalCalls, throttleVars, recordLogs>>

\* auditSmartContract returns for the i-th audit call made: result is the
\* parsed payload, or NULL on failure
AuditResult(i, result) ==
  /\ i \in DOMAIN auditCalls
  /\ auditCalls[i].open
  /\ auditCalls' = [auditCalls EXCEPT ![i].open = FALSE]
  /\ IF result # NULL
     THEN /\ activeProposal' = IF activeProposal # NULL
                               THEN [activeProposal EXCEPT !.audit = result]
                               ELSE NULL
          /\ News("Contract Audit Completed.", "neutral")
     ELSE UNCHANGED <<activeProposal, newsFeed>>
  /\ isAuditing' = FALSE
  /\ lastOp' = "auditResult"
  /\ UNCHANGED <<gameStarted, aiEnabled, grid, stats, selectedTool,
                 selectedTilePos, currentGoal, isGeneratingGoal, web3State,
                 transactions, gameModifiers, now, goalFetch, newsCalls,
                 proposalCalls, throttleVars, recordLogs>>

ApplyEffectStacks(mods, effectType) ==
  CASE effectType = "tax_break"       -> [mods EXCEPT !.taxRate = (mods.taxRate * 12) \div RateUnit]
    [] effectType = "population_boom" -> [mods EXCEPT !.growthRate = (mods.growthRate * 15) \div RateUnit]
    [] effectType = "austerity"       -> [mods EXCEPT !.taxRate = (mods.taxRate * 8) \div RateUnit,
                                                      !.growthRate = (mods.growthRate * 8) \div RateUnit]
    [] effectType = "festival"        -> [mods EXCEPT !.growthRate = (mods.growthRate * 20) \div RateUnit]
    [] OTHER                          -> mods

\* the "Apply Effects" lines of handleVote
ApplyEffect(mods, effectType) ==
  CASE effectType = "tax_break"       -> [mods EXCEPT !.taxRate = 12]
    [] effectType = "population_boom" -> [mods EXCEPT !.growthRate = 15]
    [] effectType = "austerity"       -> [mods EXCEPT !.taxRate = 8, !.growthRate = 8]
    [] effectType = "festival"        -> [mods EXCEPT !.growthRate = 20]
    [] OTHER                          -> mods

\* the treasury cost of an effect
EffectCost(effectType) == IF effectType = "festival" THEN 500 ELSE 0

handleVoteKeepsProposal(optionIndex) ==
  /\ IF activeProposalRef = NULL
     THEN /\ lastOp' = "voteIgnored"
          /\ UNCHANGED <<stats, gameModifiers, activeProposal, newsFeed, transactions>>
     ELSE LET choice == activeProposalRef.options[optionIndex + 1]
          IN /\ News("DAO Proposal Passed", "positive")
             /\ Txs(<<NewTx("VOTE", choice), NewTx("DEPLOY", activeProposalRef.title)>>)
             /\ gameModifiers' = ApplyEffect(gameModifiers, choice)
             /\ stats' = [stats EXCEPT !.money = stats.money - EffectCost(choice)]
             /\ activeProposal' = [activeProposal EXCEPT !.status = "resolved"]
             /\ lastOp' = "vote"
  /\ UNCHANGED <<gameStarted, aiEnabled, grid, selectedTool, selectedTilePos,
                 currentGoal, isGeneratingGoal, web3State, isAuditing, envVars,
                 throttleVars, recordLogs>>

handleVote(optionIndex) ==
  /\ IF activeProposalRef = NULL
     THEN /\ lastOp' = "voteIgnored"
          /\ UNCHANGED <<stats, gameModifiers, activeProposal, newsFeed, transactions>>
     ELSE LET choice == activeProposalRef.options[optionIndex + 1]
          IN /\ News("DAO Proposal Passed", "positive")
             /\ Txs(<<NewTx("VOTE", choice), NewTx("DEPLOY", activeProposalRef.title)>>)
             /\ gameModifiers' = ApplyEffect(gameModifiers, choice)
             /\ stats' = [stats EXCEPT !.money = stats.money - EffectCost(choice)]
             /\ activeProposal' = NULL
             /\ lastOp' = "vote"
  /\ UNCHANGED <<gameStarted, aiEnabled, grid, selectedTool, selectedTilePos,
                 currentGoal, isGeneratingGoal, web3State, isAuditing, envVars,
                 throttleVars, recordLogs>>

\* ------------------------------------------------------------ specifications
\* Every step is one handler, timer firing or completion, followed by its
\* render.  The inputs of each specification are drawn from the sets below.

\* tiles the player clicks, and two coordinates outside the grid
Cells == {<<0, 0>>, <<14, 14>>}
OutOfRange == {<<0 - 1, 0>>, <<0, GRID_SIZE>>}

UpgradeAllowed ==
  IF selectedTilePos = NULL THEN TRUE
  ELSE LevelOf(gridRef[selectedTilePos]) < MaxLevel

\* --- Spec: the grid store (place, demolish, upgrade, select) with ticks, AI
\* disabled and the wallet not connected
GridTools == {"None", "Road", "Residential", "School"}

Init ==
  /\ InitState
  /\ recordLogs = FALSE

Start == (\E enabled \in {FALSE} : handleStart(enabled)) /\ Render
SelectTool == gameStarted /\ (\E tool \in GridTools : handleSelectTool(tool)) /\ Render
TileClick ==
  /\ gridWrites < MaxWrites
  /\ \E p \in Cells \cup OutOfRange : handleTileClick(p[1], p[2])
  /\ Render
Upgrade == gameStarted /\ gridWrites < MaxWrites /\ UpgradeAllowed /\ handleUpgrade /\ Render
CloseSelection == gameStarted /\ selectedTilePos # NULL /\ onCloseSelection /\ Render
GameTick == stats.day < MaxDay /\ Tick(0, FALSE, FALSE) /\ Render

Next ==
  \/ Start
  \/ SelectTool
  \/ TileClick
  \/ Upgrade
  \/ CloseSelection
  \/ GameTick

Spec == Init /\ [][Next]_vars

\* --- SpecPop: the economy engine's population rule, on housing, parks and
\* hospitals
PopTools == {"None", "Residential", "Park", "Hospital"}

PopSelectTool == gameStarted /\ (\E tool \in PopTools : handleSelectTool(tool)) /\ Render
PopTileClick ==
  /\ gridWrites < MaxWrites
  /\ \E p \in Cells : handleTileClick(p[1], p[2])
  /\ Render

NextPop ==
  \/ Start
  \/ PopSelectTool
  \/ PopTileClick
  \/ Upgrade
  \/ GameTick

SpecPop == Init /\ [][NextPop]_vars

\* --- SpecIncome: the economy engine's income rule, on shops and schools
IncomeTools == {"None", "Commercial", "School"}

IncomeSelectTool ==
  gameStarted /\ (\E tool \in IncomeTools : handleSelectTool(tool)) /\ Render

NextIncome ==
  \/ Start
  \/ IncomeSelectTool
  \/ PopTileClick
  \/ Upgrade
  \/ GameTick

SpecIncome == Init /\ [][NextIncome]_vars

\* --- SpecCity: every operation of the city, with AI enabled and the wallet:
\* grid edits, ticks, the goal cycle, news, swaps, staking, proposals, audits
\* and votes
CityTools == {"None", "Residential"}
CityCells == {<<0, 0>>}
\* payloads of the generation service (NULL is a failed call)
GoalPayloads ==
  {[targetType |-> "money", targetValue |-> 500, buildingType |-> "undefined",
    reward |-> 100]}
NewsPayloads == {[text |-> "headline", type |-> "neutral"]}
ProposalPayloads ==
  {[title |-> "budget", options |-> <<"tax_break", "festival">>],
   [title |-> "growth", options |-> <<"population_boom", "austerity">>]}
AuditPayloads == {[score |-> 80, risk |-> "Low"]}
\* amounts typed into the swap and the stake inputs
SwapAmounts == {11 * TokenUnit}
StakeAmounts == {100 * TokenUnit}

CityStart == (\E enabled \in {TRUE} : handleStart(enabled)) /\ CountedRender(MaxSteps)
CitySelectTool ==
  gameStarted /\ (\E tool \in CityTools : handleSelectTool(tool)) /\ CountedRender(MaxSteps)
CityTileClick ==
  /\ gridWrites < MaxWrites
  /\ \E p \in CityCells : handleTileClick(p[1], p[2])
  /\ CountedRender(MaxSteps)
CityUpgrade ==
  gameStarted /\ gridWrites < MaxWrites /\ UpgradeAllowed /\ handleUpgrade /\ CountedRender(MaxSteps)
CityTick ==
  /\ stats.day < MaxDay
  /\ \E newsRoll \in BOOLEAN, proposalRoll \in BOOLEAN : Tick(0, newsRoll, proposalRoll)
  /\ CountedRender(MaxSteps)
GoalArrives == (\E goalData \in GoalPayloads \cup {NULL} : GoalResult(goalData)) /\ CountedRender(MaxSteps)
ClaimReward == gameStarted /\ currentGoal # NULL /\ handleClaimReward /\ CountedRender(MaxSteps)
NewsArrives == (\E item \in NewsPayloads \cup {NULL} : NewsResult(item)) /\ CountedRender(MaxSteps)
ConnectWallet ==
  gameStarted /\ ~web3State.isConnected /\ handleConnectWallet /\ CountedRender(MaxSteps)
Swap ==
  /\ web3State.isConnected
  /\ \E direction \in {"buy", "sell"}, amount \in SwapAmounts : handleSwap(direction, amount)
  /\ CountedRender(MaxSteps)
Stake ==
  web3State.isConnected /\ (\E amount \in StakeAmounts : handleStake(amount)) /\ CountedRender(MaxSteps)
Unstake ==
  web3State.isConnected /\ (\E amount \in StakeAmounts : handleUnstake(amount)) /\ CountedRender(MaxSteps)
ProposalArrives ==
  /\ \E c \in proposalCalls, data \in ProposalPayloads \cup {NULL} : ProposalResult(c, data)
  /\ CountedRender(MaxSteps)
Audit ==
  /\ web3State.isConnected
  /\ IF activeProposal = NULL THEN FALSE ELSE activeProposal.audit = NULL
  /\ handleAudit
  /\ CountedRender(MaxSteps)
AuditArrives ==
  /\ \E i \in DOMAIN auditCalls, result \in AuditPayloads \cup {NULL} : AuditResult(i, result)
  /\ CountedRender(MaxSteps)
Vote ==
  /\ web3State.isConnected
  /\ activeProposal # NULL
  /\ \E optionIndex \in {0, 1} : handleVote(optionIndex)
  /\ CountedRender(MaxSteps)

NextCity ==
  \/ CityStart
  \/ CitySelectTool
  \/ CityTileClick
  \/ CityUpgrade
  \/ CityTick
  \/ GoalArrives
  \/ ClaimReward
  \/ NewsArrives
  \/ ConnectWallet
  \/ Swap
  \/ Stake
  \/ Unstake
  \/ ProposalArrives
  \/ Audit
  \/ AuditArrives
  \/ Vote

SpecCity == Init /\ [][NextCity]_vars

\* --- SpecDao: the economy engine under governance and staking, with AI
\* disabled: housing and shops, the wallet, staking, proposals and votes
DaoTools == {"Residential", "Commercial"}

DaoStart == (\E enabled \in {FALSE} : handleStart(enabled)) /\ CountedRender(MaxDaoSteps)
DaoSelectTool ==
  gameStarted /\ (\E tool \in DaoTools : handleSelectTool(tool)) /\ CountedRender(MaxDaoSteps)
DaoTileClick ==
  /\ gridWrites < MaxWrites
  /\ \E p \in Cells : handleTileClick(p[1], p[2])
  /\ CountedRender(MaxDaoSteps)
DaoUpgrade ==
  /\ gameStarted /\ gridWrites < MaxWrites /\ UpgradeAllowed
  /\ handleUpgrade
  /\ CountedRender(MaxDaoSteps)
DaoTick ==
  /\ stats.day < MaxDay
  /\ Tick(0, FALSE, FALSE)
  /\ CountedRender(MaxDaoSteps)
DaoConnectWallet ==
  gameStarted /\ ~web3State.isConnected /\ handleConnectWallet /\ CountedRender(MaxDaoSteps)
DaoStake ==
  web3State.isConnected /\ (\E amount \in StakeAmounts : handleStake(amount)) /\ CountedRender(MaxDaoSteps)
DaoUnstake ==
  web3State.isConnected /\ (\E amount \in StakeAmounts : handleUnstake(amount)) /\ CountedRender(MaxDaoSteps)
DaoProposalArrives ==
  /\ \E c \in proposalCalls, data \in ProposalPayloads : ProposalResult(c, data)
  /\ CountedRender(MaxDaoSteps)
DaoVote ==
  /\ web3State.isConnected
  /\ activeProposal # NULL
  /\ \E optionIndex \in {0, 1} : handleVote(optionIndex)
  /\ CountedRender(MaxDaoSteps)

NextDao ==
  \/ DaoStart
  \/ DaoSelectTool
  \/ DaoTileClick
  \/ DaoUpgrade
  \/ DaoTick
  \/ DaoConnectWallet
  \/ DaoStake
  \/ DaoUnstake
  \/ DaoProposalArrives
  \/ DaoVote

SpecDao == Init /\ [][NextDao]_vars

\* --- SpecGoal: the goal cycle (arrival, completion by a tick, claim) with AI
\* enabled or disabled at the start, on roads and housing
GoalTools == {"Residential"}
GoalCyclePayloads ==
  {[targetType |-> "money", targetValue |-> 900, buildingType |-> "undefined",
    reward |-> 300],
   [targetType |-> "population", targetValue |-> 5, buildingType |-> "undefined",
    reward |-> 100],
   [targetType |-> "building_count", targetValue |-> 1,
    buildingType |-> "Residential", reward |-> 100],
   [targetType |-> "building_count", targetValue |-> 1,
    buildingType |-> "undefined", reward |-> 100]}

GoalStart == (\E enabled \in BOOLEAN : handleStart(enabled)) /\ Render
GoalSelectTool ==
  gameStarted /\ (\E tool \in GoalTools : handleSelectTool(tool)) /\ Render
GoalCycleArrives == (\E goalData \in GoalCyclePayloads : GoalResult(goalData)) /\ Render
GoalClaim == gameStarted /\ handleClaimReward /\ Render

NextGoal ==
  \/ GoalStart
  \/ GoalSelectTool
  \/ PopTileClick
  \/ GameTick
  \/ GoalCycleArrives
  \/ GoalClaim

SpecGoal == Init /\ [][NextGoal]_vars

\* --- SpecAsync: the grid store and the tick as separate tasks.  The interval
\* callback queues its updates and returns; the render and the "sync refs"
\* effects run in a later task.  A click dispatched in between runs its
\* handler on the refs of the previous render, and the render that follows
\* applies the queued updaters in order.
AsyncTools == {"None", "Residential", "Hospital"}
AsyncCells == {<<0, 0>>, <<14, 14>>, <<0, 14>>}

AsyncSelectTool ==
  /\ gameStarted /\ Synced
  /\ \E tool \in AsyncTools : handleSelectTool(tool)
  /\ Render
AsyncTick ==
  /\ Synced
  /\ stats.day < MaxDay
  /\ Tick(0, FALSE, FALSE)
  /\ Queued
AsyncTileClick ==
  /\ gridWrites < MaxWrites
  /\ IF Synced
     THEN (\E p \in AsyncCells : handleTileClick(p[1], p[2])) /\ Render
     ELSE /\ lastOp = "tick"
          /\ (\E p \in AsyncCells : handleTileClick(p[1], p[2]))
          /\ Queued
AsyncUpgrade ==
  /\ gameStarted /\ gridWrites < MaxWrites /\ UpgradeAllowed
  /\ IF Synced
     THEN handleUpgrade /\ Render
     ELSE lastOp = "tick" /\ handleUpgrade /\ Queued
NextAsync ==
  \/ Start
  \/ AsyncSelectTool
  \/ AsyncTick
  \/ AsyncTileClick
  \/ AsyncUpgrade
  \/ AsyncRender

SpecAsync == Init /\ [][NextAsync]_vars

\* --- SpecGov: governance with AI disabled and an empty grid: the wallet, the
\* connect-time and the tick-triggered proposal requests and their completions,
\* audits and votes
\* audit calls made in one behaviour
MaxAudits == 2

\* parsed proposal payloads: two options, three options, one option
GovProposalPayloads ==
  { [title |-> "budget", options |-> <<"tax_break", "festival">>],
    [title |-> "growth", options |-> <<"population_boom", "austerity", "festival">>],
    [title |-> "short", options |-> <<"tax_break">>] }
GovAuditPayloads == {[score |-> 80, risk |-> "Low"]}

\* the audit section of the panel: the result when the proposal has one, the
\* audit button (onClick = onAudit) otherwise
onAudit ==
  IF (IF activeProposal = NULL THEN FALSE ELSE activeProposal.audit # NULL)
  THEN /\ lastOp' = "auditHidden"
       /\ UNCHANGED <<stateVars, envVars, throttleVars, recordLogs>>
  ELSE handleAudit

GovTick ==
  /\ stats.day < MaxDay
  /\ \E proposalRoll \in BOOLEAN : Tick(0, FALSE, proposalRoll)
  /\ Render
GovConnectWallet == gameStarted /\ ~web3State.isConnected /\ handleConnectWallet /\ Render
GovProposalArrives ==
  /\ \E c \in proposalCalls, data \in GovProposalPayloads \cup {NULL} : ProposalResult(c, data)
  /\ Render
GovAudit == web3State.isConnected /\ Len(auditCalls) < MaxAudits /\ onAudit /\ Render
GovAuditArrives ==
  /\ \E i \in DOMAIN auditCalls, result \in GovAuditPayloads \cup {NULL} : AuditResult(i, result)
  /\ Render
GovVote ==
  /\ web3State.isConnected
  /\ \E optionIndex \in {0, 1} : handleVote(optionIndex)
  /\ Render

NextGov ==
  \/ Start
  \/ GovTick
  \/ GovConnectWallet
  \/ GovProposalArrives
  \/ GovAudit
  \/ GovAuditArrives
  \/ GovVote

SpecGov == Init /\ [][NextGov]_vars

\* --- SpecVote: proposals and votes over enough days for a proposal to pass
\* its expiresAt, with the news feed and the transaction log recorded
MaxGovDay == 8

InitLogged ==
  /\ InitState
  /\ recordLogs = TRUE

VoteTick ==
  /\ stats.day < MaxGovDay
  /\ \E proposalRoll \in BOOLEAN : Tick(0, FALSE, proposalRoll)
  /\ Render

NextVote ==
  \/ Start
  \/ VoteTick
  \/ GovConnectWallet
  \/ GovProposalArrives
  \/ GovVote

SpecVote == InitLogged /\ [][NextVote]_vars

\* --- SpecToken: the token state with an empty grid: the wallet, ticks with a
\* moving price, swaps, staking and unstaking with the amounts a player can
\* type (a negative number, zero, a positive number)
MaxTokenSteps == 6

\* Number(swapAmount) and Number(stakeInput)
TokenAmounts == {(0 - 120) * TokenUnit, 0, 20 * TokenUnit}
\* (Math.random() - 0.5) * 2, in halves: -1, -0.5, 0, 0.5
PriceMoves == {0 - 2, 0 - 1, 0, 1}

TokenStart == (\E enabled \in {FALSE} : handleStart(enabled)) /\ CountedRender(MaxTokenSteps)
TokenConnectWallet ==
  gameStarted /\ ~web3State.isConnected /\ handleConnectWallet /\ CountedRender(MaxTokenSteps)
TokenTick ==
  /\ stats.day < MaxDay
  /\ \E d \in PriceMoves : Tick(d, FALSE, FALSE)
  /\ CountedRender(MaxTokenSteps)
TokenSwap ==
  /\ web3State.isConnected
  /\ \E direction \in {"buy", "sell"}, amount \in TokenAmounts : handleSwap(direction, amount)
  /\ CountedRender(MaxTokenSteps)
TokenStake ==
  /\ web3State.isConnected
  /\ \E amount \in TokenAmounts : handleStake(amount)
  /\ CountedRender(MaxTokenSteps)
TokenUnstake ==
  /\ web3State.isConnected
  /\ \E amount \in TokenAmounts : handleUnstake(amount)
  /\ CountedRender(MaxTokenSteps)

NextToken ==
  \/ TokenStart
  \/ TokenConnectWallet
  \/ TokenTick
  \/ TokenSwap
  \/ TokenStake
  \/ TokenUnstake

SpecToken == Init /\ [][NextToken]_vars

\* --- SpecMine: mining: housing, the wallet and ticks with a moving price
MineConnectWallet == gameStarted /\ ~web3State.isConnected /\ handleConnectWallet /\ Render
MineTick ==
  /\ stats.day < MaxDay
  /\ \E d \in PriceMoves : Tick(d, FALSE, FALSE)
  /\ Render

NextMine ==
  \/ Start
  \/ GoalSelectTool
  \/ PopTileClick
  \/ MineConnectWallet
  \/ MineTick

SpecMine == Init /\ [][NextMine]_vars

\* --- SpecPrice: the price walk over enough ticks to reach the floor from the
\* initial price, with the wallet and the stake input left at its default 0
MaxPriceDay == 43

\* price moves of -1 and +0.5 (halves)
FloorMoves == {0 - 2, 1}
\* Number(stakeInput) for the initial stakeInput '0'
DefaultStake == {0}

PriceConnectWallet == gameStarted /\ ~web3State.isConnected /\ handleConnectWallet /\ Render
PriceTick ==
  /\ stats.day < MaxPriceDay
  /\ \E d \in FloorMoves : Tick(d, FALSE, FALSE)
  /\ Render
PriceStake ==
  /\ web3State.isConnected
  /\ \E amount \in DefaultStake : handleStake(amount)
  /\ Render
PriceUnstake ==
  /\ web3State.isConnected
  /\ \E amount \in DefaultStake : handleUnstake(amount)
  /\ Render

NextPrice ==
  \/ Start
  \/ PriceConnectWallet
  \/ PriceTick
  \/ PriceStake
  \/ PriceUnstake

SpecPrice == Init /\ [][NextPrice]_vars

\* --- SpecNews: the news throttle, with AI enabled or disabled at the start,
\* over enough ticks for two requests 60 seconds apart
MaxNewsDay == 33

NewsItems == {[text |-> "headline", type |-> "neutral"]}

NewsStart == (\E enabled \in BOOLEAN : handleStart(enabled)) /\ Render
NewsTick ==
  /\ stats.day < MaxNewsDay
  /\ \E newsRoll \in BOOLEAN : Tick(0, newsRoll, FALSE)
  /\ Render
NewsItemArrives == (\E item \in NewsItems \cup {NULL} : NewsResult(item)) /\ Render

NextNews ==
  \/ NewsStart
  \/ NewsTick
  \/ NewsItemArrives

SpecNews == Init /\ [][NextNews]_vars

\* --- SpecRetry: the goal request and its retry, with AI enabled or disabled
\* at the start.  The generation service fails at most MaxFailures times
\* (steps counts its failures).  Ticks are taken while day < MaxRetryDay and,
\* beyond that, while a scheduled retry is not yet due; a retry that is due
\* fires before the next firing of the interval (timers fire in the order of
\* their due times).  The interval and the retry timer always fire in the end
\* and the service answers in the end (fairness).
MaxRetryDay == 3
MaxFailures == 2

RetryGoals ==
  {[targetType |-> "money", targetValue |-> 2000, buildingType |-> "undefined",
    reward |-> 100]}

RetryDue == goalFetch.phase = "retry" /\ now >= goalFetch.retryAt
RetryPending == goalFetch.phase = "retry" /\ now < goalFetch.retryAt

RetryStart == (\E enabled \in BOOLEAN : handleStart(enabled)) /\ Render
RetryTick ==
  /\ stats.day < MaxRetryDay \/ RetryPending
  /\ ~RetryDue
  /\ Tick(0, FALSE, FALSE)
  /\ Render
GoalSucceeds == (\E goalData \in RetryGoals : GoalResult(goalData)) /\ Render
GoalFails == GoalResult(NULL) /\ CountedRender(MaxFailures)
RetryFires == GoalRetry /\ Render

NextRetry ==
  \/ RetryStart
  \/ RetryTick
  \/ GoalSucceeds
  \/ GoalFails
  \/ RetryFires

SpecRetry ==
  /\ Init
  /\ [][NextRetry]_vars
  /\ WF_vars(RetryTick)
  /\ WF_vars(RetryFires)
  /\ SF_vars(GoalSucceeds)

\* --- SpecLoop: the tick loop next to the four kinds of generation calls
\* (goal, news, proposal, audit).  A call is answered with a result or with
\* null, at any time or never: only the interval is fair.  The audit call is
\* the one that is never answered (its answers are part of SpecGov).
MaxLoopDay == 3
MaxLoopAudits == 1
LoopProposals == {[title |-> "budget", options |-> <<"tax_break", "festival">>]}

LoopCallsInFlight ==
  \/ goalFetch.phase = "calling"
  \/ newsCalls > 0
  \/ proposalCalls # {}
  \/ \E i \in DOMAIN auditCalls : auditCalls[i].open

LoopStart == (\E enabled \in {TRUE} : handleStart(enabled)) /\ Render
LoopTickAwaitsCalls ==
  /\ ~LoopCallsInFlight
  /\ stats.day < MaxLoopDay
  /\ \E newsRoll \in BOOLEAN, proposalRoll \in BOOLEAN : Tick(0, newsRoll, proposalRoll)
  /\ Render
LoopTick ==
  /\ stats.day < MaxLoopDay
  /\ \E newsRoll \in BOOLEAN, proposalRoll \in BOOLEAN : Tick(0, newsRoll, proposalRoll)
  /\ Render
LoopConnectWallet == ~web3State.isConnected /\ handleConnectWallet /\ Render
LoopGoalArrives == (\E goalData \in RetryGoals \cup {NULL} : GoalResult(goalData)) /\ Render
LoopNewsArrives == (\E item \in NewsItems \cup {NULL} : NewsResult(item)) /\ Render
LoopProposalArrives ==
  /\ \E c \in proposalCalls, data \in LoopProposals \cup {NULL} : ProposalResult(c, data)
  /\ Render
LoopAudit == Len(auditCalls) < MaxLoopAudits /\ onAudit /\ Render

NextLoop ==
  \/ LoopStart
  \/ LoopTick
  \/ LoopConnectWallet
  \/ LoopGoalArrives
  \/ LoopNewsArrives
  \/ LoopProposalArrives
  \/ LoopAudit

SpecLoop == Init /\ [][NextLoop]_vars /\ WF_vars(LoopTick)

\* --- SpecPayload: the four generation calls answered with response bodies.
\* A body is text that is JSON or not; data is what JSON.parse gives for it,
\* with "undefined" for a field the body leaves out.
MaxPayloadDay == 2

\* parseJSON of geminiService: null for no text and for text that is not JSON
parseJSON(text) == IF text = NULL THEN NULL ELSE IF text.json THEN text.data ELSE NULL

NotJson == [json |-> FALSE, data |-> NULL]
GoalBodies ==
  {NULL, NotJson,
   [json |-> TRUE, data |-> [targetType |-> "money", targetValue |-> 2000,
                             buildingType |-> "undefined", reward |-> 100]],
   [json |-> TRUE, data |-> [targetType |-> "undefined", targetValue |-> 2000,
                             buildingType |-> "undefined", reward |-> 100]]}
NewsBodies ==
  {NotJson,
   [json |-> TRUE, data |-> [text |-> "headline", type |-> "neutral"]],
   [json |-> TRUE, data |-> [text |-> "undefined", type |-> "neutral"]]}
ProposalBodies ==
  {NotJson,
   [json |-> TRUE, data |-> [title |-> "budget", options |-> <<"tax_break", "festival">>]],
   [json |-> TRUE, data |-> [title |-> "undefined", options |-> <<"tax_break", "festival">>]]}
AuditBodies ==
  {NotJson,
   [json |-> TRUE, data |-> [score |-> 80, risk |-> "Low"]],
   [json |-> TRUE, data |-> [score |-> 80, risk |-> "undefined"]]}

PayloadTick ==
  /\ stats.day < MaxPayloadDay
  /\ \E newsRoll \in BOOLEAN : Tick(0, newsRoll, FALSE)
  /\ Render
PayloadGoalArrives == (\E text \in GoalBodies : GoalResult(parseJSON(text))) /\ Render
PayloadNewsArrives == (\E text \in NewsBodies : NewsResult(parseJSON(text))) /\ Render
PayloadProposalArrives ==
  /\ \E c \in proposalCalls, text \in ProposalBodies : ProposalResult(c, parseJSON(text))
  /\ Render
PayloadAuditArrives ==
  /\ \E i \in DOMAIN auditCalls, text \in AuditBodies : AuditResult(i, parseJSON(text))
  /\ Render

NextPayload ==
  \/ LoopStart
  \/ PayloadTick
  \/ LoopConnectWallet
  \/ LoopAudit
  \/ PayloadGoalArrives
  \/ PayloadNewsArrives
  \/ PayloadProposalArrives
  \/ PayloadAuditArrives

SpecPayload == InitLogged /\ [][NextPayload]_vars

\* --- SpecFunds: a treasury that runs out: costly buildings, upgrades,
\* demolition and token purchases, with the logs recorded and no ticks
MaxFundsSteps == 6
FundsTools == {"None", "Commercial", "Hospital"}

FundsSelectTool ==
  gameStarted /\ (\E tool \in FundsTools : handleSelectTool(tool)) /\ CountedRender(MaxFundsSteps)
FundsTileClick == (\E p \in Cells : handleTileClick(p[1], p[2])) /\ CountedRender(MaxFundsSteps)
FundsUpgrade == gameStarted /\ handleUpgrade /\ CountedRender(MaxFundsSteps)
FundsConnectWallet ==
  gameStarted /\ ~web3State.isConnected /\ handleConnectWallet /\ CountedRender(MaxFundsSteps)
FundsBuy ==
  /\ web3State.isConnected
  /\ \E amount \in SwapAmounts : handleSwap("buy", amount)
  /\ CountedRender(MaxFundsSteps)

NextFunds ==
  \/ Start
  \/ FundsSelectTool
  \/ FundsTileClick
  \/ FundsUpgrade
  \/ FundsConnectWallet
  \/ FundsBuy

SpecFunds == InitLogged /\ [][NextFunds]_vars

\* --- SpecLog: the two bounded logs filled past their capacity: the wallet,
\* purchases of 0 tokens (always affordable) and sales of 50 of the 100 tokens
\* of the wallet, with the logs recorded and no ticks
MaxLogSteps == 22
LogSellAmounts == {50 * TokenUnit}

LogBuy == web3State.isConnected /\ handleSwap("buy", 0) /\ CountedRender(MaxLogSteps)
LogSell ==
  /\ web3State.isConnected
  /\ \E amount \in LogSellAmounts : handleSwap("sell", amount)
  /\ CountedRender(MaxLogSteps)

NextLog ==
  \/ Start
  \/ GovConnectWallet
  \/ LogBuy
  \/ LogSell

SpecLog == InitLogged /\ [][NextLog]_vars

\* --- SpecMoney: every operation that changes money, each of them also run
\* after a firing of the interval whose updates are not rendered yet (its
\* closures and refs then hold the state of the render before the tick).
\* The operations run on rendered state are counted.
MaxMoneySteps == 4
MoneyTools == {"None", "Commercial"}
MoneyCells == {<<0, 0>>, <<14, 14>>}
\* the wallet holds 100 tokens: 60 can be sold once and bought back
MoneyAmounts == {60 * TokenUnit}

MoneySelectTool ==
  /\ gameStarted /\ Synced
  /\ \E tool \in MoneyTools : handleSelectTool(tool)
  /\ CountedRender(MaxMoneySteps)
MoneyTick ==
  /\ Synced
  /\ stats.day < MaxDay
  /\ Tick(0, FALSE, FALSE)
  /\ Queued
MoneyTileClick ==
  /\ IF Synced
     THEN (\E p \in MoneyCells : handleTileClick(p[1], p[2])) /\ CountedRender(MaxMoneySteps)
     ELSE /\ lastOp = "tick"
          /\ (\E p \in MoneyCells : handleTileClick(p[1], p[2]))
          /\ Queued
MoneyUpgrade ==
  /\ gameStarted /\ UpgradeAllowed
  /\ IF Synced
     THEN handleUpgrade /\ CountedRender(MaxMoneySteps)
     ELSE lastOp = "tick" /\ handleUpgrade /\ Queued
MoneyConnectWallet ==
  gameStarted /\ Synced /\ ~web3State.isConnected /\ handleConnectWallet /\ CountedRender(MaxMoneySteps)
MoneyGoalArrives ==
  Synced /\ (\E goalData \in GoalPayloads : GoalResult(goalData)) /\ CountedRender(MaxMoneySteps)
MoneyProposalArrives ==
  /\ Synced
  /\ \E c \in proposalCalls, data \in LoopProposals : ProposalResult(c, data)
  /\ CountedRender(MaxMoneySteps)
MoneySwap ==
  /\ web3State.isConnected
  /\ IF Synced
     THEN /\ \E direction \in {"buy", "sell"}, amount \in MoneyAmounts :
               handleSwap(direction, amount)
          /\ CountedRender(MaxMoneySteps)
     ELSE /\ lastOp = "tick"
          /\ \E direction \in {"buy", "sell"}, amount \in MoneyAmounts :
               handleSwap(direction, amount)
          /\ Queued
MoneyClaim ==
  /\ currentGoal # NULL
  /\ IF Synced
     THEN handleClaimReward /\ CountedRender(MaxMoneySteps)
     ELSE lastOp = "tick" /\ handleClaimReward /\ Queued
MoneyVote ==
  /\ web3State.isConnected
  /\ activeProposal # NULL
  /\ IF Synced
     THEN (\E optionIndex \in {0, 1} : handleVote(optionIndex)) /\ CountedRender(MaxMoneySteps)
     ELSE /\ lastOp = "tick"
          /\ (\E optionIndex \in {0, 1} : handleVote(optionIndex))
          /\ Queued

NextMoney ==
  \/ LoopStart
  \/ MoneySelectTool
  \/ MoneyTick
  \/ MoneyTileClick
  \/ MoneyUpgrade
  \/ MoneyConnectWallet
  \/ MoneyGoalArrives
  \/ MoneyProposalArrives
  \/ MoneySwap
  \/ MoneyClaim
  \/ MoneyVote
  \/ AsyncRender

SpecMoney == Init /\ [][NextMoney]_vars

\* --- SpecFloor: population under every kind of pressure: housing built and
\* demolished, the growth modifiers of a vote (1.5 and 0.8), and staked
\* amounts above and below zero
MaxFloorSteps == 9
FloorTools == {"None", "Residential"}
FloorCells == {<<0, 0>>}
\* Number(stakeInput)
FloorStakes == {(0 - 2000) * TokenUnit, 100 * TokenUnit}
FloorProposals == {[title |-> "growth", options |-> <<"population_boom", "austerity">>]}

FloorSelectTool ==
  gameStarted /\ (\E tool \in FloorTools : handleSelectTool(tool)) /\ CountedRender(MaxFloorSteps)
FloorTileClick == (\E p \in FloorCells : handleTileClick(p[1], p[2])) /\ CountedRender(MaxFloorSteps)
FloorTick == stats.day < MaxDay /\ Tick(0, FALSE, FALSE) /\ CountedRender(MaxFloorSteps)
FloorConnectWallet ==
  gameStarted /\ ~web3State.isConnected /\ handleConnectWallet /\ CountedRender(MaxFloorSteps)
FloorStake ==
  /\ web3State.isConnected
  /\ \E amount \in FloorStakes : handleStake(amount)
  /\ CountedRender(MaxFloorSteps)
FloorProposalArrives ==
  /\ \E c \in proposalCalls, data \in FloorProposals : ProposalResult(c, data)
  /\ CountedRender(MaxFloorSteps)
FloorVote ==
  /\ web3State.isConnected
  /\ activeProposal # NULL
  /\ \E optionIndex \in {0, 1} : handleVote(optionIndex)
  /\ CountedRender(MaxFloorSteps)

NextFloor ==
  \/ Start
  \/ FloorSelectTool
  \/ FloorTileClick
  \/ FloorTick
  \/ FloorConnectWallet
  \/ FloorStake
  \/ FloorProposalArrives
  \/ FloorVote

SpecFloor == Init /\ [][NextFloor]_vars

\* ------------------------------------------------------------------ claims

\* the housing capacity as the specification states it: 50 per level of every
\* Residential tile, counted level by level (hundredths)
RECURSIVE ResidentialLevels(_, _)
ResidentialLevels(g, l) ==
  IF l = 0 THEN 0
  ELSE l * Cardinality({p \in Coords : g[p].buildingType = "Residential" /\ g[p].level = l})
       + ResidentialLevels(g, l - 1)

StatedHousingCap(g) == 50 * PopUnit * ResidentialLevels(g, MaxLevel + 1)

\* C1: a tick sets population to min(population + popGrowth, housingCap),
\* except that with housingCap = 0 and a prior population > 0 it sets it to
\* max(0, prior - 5).
C1_PopulationRule ==
  lastOp = "tick" =>
    stats.population =
      IF StatedHousingCap(grid) = 0 /\ prevStats.population > 0
      THEN Max(0, prevStats.population - 5 * PopUnit)
      ELSE Min(prevStats.population + DailyPopGrowth(grid, gameModifiers, web3State),
               StatedHousingCap(grid))

\* C1 witness: a tick with no housing took a population below 5 to 0
C1_Witness ==
  /\ lastOp = "tick"
  /\ StatedHousingCap(grid) = 0
  /\ prevStats.population > 0
  /\ prevStats.population < 5 * PopUnit
  /\ stats.population = 0

\* C2 as stated: after every tick, population is at most the housing capacity
\* computed in that tick.
C2_PopulationWithinCap ==
  lastOp = "tick" => stats.population <= StatedHousingCap(grid)

\* C2 amended: after every tick population is at most the housing capacity,
\* except when the capacity is 0 and the prior population was above 0: then
\* it is max(0, prior - 5), which is above the capacity while prior > 5.
C2_PopulationWithinCapOrDecaying ==
  lastOp = "tick" =>
    IF StatedHousingCap(grid) = 0 /\ prevStats.population > 0
    THEN stats.population = Max(0, prevStats.population - 5 * PopUnit)
    ELSE stats.population <= StatedHousingCap(grid)

\* C2 witness: a tick whose growth would have passed a capacity above 0 and
\* was limited to it
C2_Witness ==
  /\ lastOp = "tick"
  /\ StatedHousingCap(grid) > 0
  /\ prevStats.population + DailyPopGrowth(grid, gameModifiers, web3State)
       > StatedHousingCap(grid)
  /\ stats.population = StatedHousingCap(grid)

\* the levels of the tiles of type t, counted level by level
RECURSIVE TypeLevels(_, _, _)
TypeLevels(g, t, l) ==
  IF l = 0 THEN 0
  ELSE l * Cardinality({p \in Coords : g[p].buildingType = t /\ g[p].level = l})
       + TypeLevels(g, t, l - 1)

\* the sum over occupied tiles of incomeGen x level, type by type
RECURSIVE StatedIncomeSum(_, _)
StatedIncomeSum(g, T) ==
  IF T = {} THEN 0
  ELSE LET t == CHOOSE u \in T : TRUE
       IN BUILDINGS[t].incomeGen * TypeLevels(g, t, MaxLevel + 1)
          + StatedIncomeSum(g, T \ {t})

\* C3 as stated: a tick never lowers money.
C3_TickNeverLowersMoney ==
  lastOp = "tick" => stats.money >= prevStats.money

\* C3 amended: a tick lowers money exactly when the sum of incomeGen x level
\* over the occupied tiles is negative (School -5 and Hospital -10 per level
\* are upkeep); with no School and no Hospital it never lowers money.
C3_TickLowersMoneyOnlyByUpkeep ==
  lastOp = "tick" =>
    /\ (stats.money < prevStats.money) <=> (StatedIncomeSum(grid, BuildingType) < 0)
    /\ (\A p \in Coords : grid[p].buildingType \notin {"School", "Hospital"})
         => stats.money >= prevStats.money

\* C3 witness: a tick with a School on the grid whose upkeep is outweighed by
\* a shop, so that money rose
C3_Witness ==
  /\ lastOp = "tick"
  /\ \E p \in Coords : grid[p].buildingType = "School"
  /\ stats.money > prevStats.money

\* a click on p, with the render that follows it
ClickAt(p) == handleTileClick(p[1], p[2]) /\ Render

\* the tile that a successful write of type t at level l leaves at p
TileAt(p, t, l) == [x |-> p[1], y |-> p[2], buildingType |-> t, level |-> l]

\* C7: placing a building of type selectedTool at p succeeds exactly when the
\* tile is None and money >= cost(type); then money drops by exactly the cost,
\* the tile becomes {type, level 1} and every other tile is unchanged;
\* otherwise the grid and money are unchanged.  (From the initial state a
\* Residential at (0,0) leaves money 900, and a tick later population is 5.)
C7_PlaceRule ==
  [][\A p \in Cells :
       (gameStarted /\ selectedTool # "None" /\ ClickAt(p)) =>
         IF grid[p].buildingType = "None" /\ stats.money >= BUILDINGS[selectedTool].cost
         THEN /\ stats' = [stats EXCEPT !.money = stats.money - BUILDINGS[selectedTool].cost]
              /\ grid' = [grid EXCEPT ![p] = TileAt(p, selectedTool, 1)]
              /\ (stats.money = 1000 /\ selectedTool = "Residential")
                   => stats'.money = 900
         ELSE grid' = grid /\ stats' = stats]_vars

\* C7 witness: Residential placed at (0,0) from the initial state (money 900),
\* and one tick later population is 5
C7_Witness ==
  /\ lastOp = "tick"
  /\ grid = [createInitialGrid EXCEPT ![<<0, 0>>] = TileAt(<<0, 0>>, "Residential", 1)]
  /\ prevStats = [money |-> 900, population |-> 0, day |-> 1]
  /\ stats = [money |-> 900, population |-> 5 * PopUnit, day |-> 2]

\* C8: demolish at p succeeds exactly when the tile is occupied and
\* money >= 5; then money drops by exactly 5 and the tile becomes
\* {None, level 1} whatever its level was.  On an empty tile it changes
\* nothing, so a second demolish of the same tile charges nothing more.
C8_DemolishRule ==
  [][\A p \in Cells :
       (gameStarted /\ selectedTool = "None" /\ ClickAt(p)) =>
         IF grid[p].buildingType # "None" /\ stats.money >= 5
         THEN /\ stats' = [stats EXCEPT !.money = stats.money - 5]
              /\ grid' = [grid EXCEPT ![p] = TileAt(p, "None", 1)]
              /\ grid'[p] = createInitialGrid[p]
         ELSE /\ grid' = grid /\ stats' = stats
              /\ grid[p].buildingType = "None" => UNCHANGED stateVars]_vars

\* C8 witness: a level-2 Residential (100 + 150 paid) was demolished for 5 and
\* the grid is the empty grid again, every tile at level 1
C8_Witness ==
  /\ lastOp = "demolish"
  /\ stats.money = 745
  /\ prevStats.money = 750
  /\ grid = createInitialGrid

\* floor(cost(type) x 1.5^L): the c with c <= cost x 3^L / 2^L < c + 1
StatedUpgradeCost(t, L) ==
  CHOOSE c \in 0 .. BUILDINGS[t].cost * Pow(2, L) :
    /\ c * Pow(2, L) <= BUILDINGS[t].cost * Pow(3, L)
    /\ BUILDINGS[t].cost * Pow(3, L) < (c + 1) * Pow(2, L)

\* C9: upgrading the selected tile at level L costs floor(cost(type) x 1.5^L);
\* it succeeds exactly when money >= that cost, deducting exactly that cost
\* and raising the level by exactly 1; otherwise level and money are unchanged.
C9_UpgradeRule ==
  [][(gameStarted /\ selectedTilePos # NULL /\ handleUpgrade /\ Render) =>
       LET tile == grid[selectedTilePos]
           c == StatedUpgradeCost(tile.buildingType, tile.level)
       IN IF stats.money >= c
          THEN /\ stats' = [stats EXCEPT !.money = stats.money - c]
               /\ grid' = [grid EXCEPT ![selectedTilePos] =
                             TileAt(selectedTilePos, tile.buildingType, tile.level + 1)]
               /\ (tile.buildingType = "Residential" /\ tile.level = 2)
                    => stats'.money = stats.money - 225
          ELSE grid' = grid /\ stats' = stats]_vars

\* C9 witness: a Residential at level 2 was upgraded to level 3 for 225
C9_Witness ==
  /\ lastOp = "upgrade"
  /\ \E p \in Coords : grid[p].buildingType = "Residential" /\ grid[p].level = 3
  /\ prevStats.money - stats.money = 225

\* C10: a click with a build tool on an occupied tile, Road or not, and a
\* click on an out-of-range coordinate, change neither money nor any tile;
\* on an occupied non-Road tile the only effect is that the tile becomes the
\* selected tile.
C10_ClickFrame ==
  [][\A p \in Cells \cup OutOfRange :
       (gameStarted /\ ClickAt(p)) =>
         IF p \notin Coords
         THEN UNCHANGED stateVars
         ELSE (selectedTool # "None" /\ grid[p].buildingType # "None") =>
                /\ grid' = grid /\ stats' = stats
                /\ selectedTilePos' =
                     IF grid[p].buildingType = "Road" THEN selectedTilePos ELSE p
                /\ UNCHANGED <<gameStarted, aiEnabled, selectedTool, currentGoal,
                               isGeneratingGoal, newsFeed, web3State,
                               activeProposal, transactions, isAuditing,
                               gameModifiers>>]_vars

\* C10 witness: a click with a build tool on a School selected it and changed
\* neither the treasury nor the grid
C10_Witness ==
  /\ lastOp = "select"
  /\ selectedTool \notin {"None", "School"}
  /\ selectedTilePos # NULL
  /\ grid[selectedTilePos].buildingType = "School"
  /\ stats = prevStats
  /\ gridWrites = 1

\* C4 as stated: money decreases only through place, demolish, upgrade, buy or
\* a festival vote, and each of them is rejected, leaving money unchanged,
\* when money is less than the amount it would deduct.
C4_MoneySpentOnlyWhenAffordable ==
  stats.money < prevStats.money =>
    /\ lastOp \in {"place", "demolish", "upgrade", "buy", "vote"}
    /\ prevStats.money >= prevStats.money - stats.money

\* C5: every tick increases day by exactly 1, and no other operation (place,
\* demolish, upgrade, select, claim, swap, stake, unstake, vote, audit, a
\* generation result arriving) changes day.
C5_DayAdvancesOnlyByTick ==
  [][IF CityTick
     THEN stats'.day = stats.day + 1
     ELSE stats'.day = stats.day]_vars

\* C5 witness: the second tick took day 2 to day 3, after a goal had arrived
C5_Witness ==
  /\ lastOp = "tick"
  /\ currentGoal # NULL
  /\ prevStats.day = 2
  /\ stats.day = 3

\* the sum over occupied tiles of popGen x level, type by type
RECURSIVE StatedPopSum(_, _)
StatedPopSum(g, T) ==
  IF T = {} THEN 0
  ELSE LET t == CHOOSE u \in T : TRUE
       IN BUILDINGS[t].popGen * TypeLevels(g, t, MaxLevel + 1)
          + StatedPopSum(g, T \ {t})

\* C6: in a tick, income is the sum over occupied tiles of incomeGen x level
\* times taxRate, and the new money is the prior money plus that income;
\* popGrowth is the sum of popGen x level times growthRate and, when
\* staked > 0, times (1 + staked/1000).  popGrowth is observed in the
\* population of a tick that the housing capacity does not limit.
C6_IncomeAndGrowth ==
  lastOp = "tick" =>
    LET taxRate == gameModifiers.taxRate
        growthRate == gameModifiers.growthRate
        staked == web3State.stakedSky \div TokenUnit
        bonus == IF staked > 0 THEN 1000 + staked ELSE 1000
    IN /\ (stats.money - prevStats.money) * RateUnit
            = StatedIncomeSum(grid, BuildingType) * taxRate
       /\ stats.population < StatedHousingCap(grid) =>
            (stats.population - prevStats.population) * RateUnit * 1000
              = StatedPopSum(grid, BuildingType) * growthRate * bonus * PopUnit
       /\ (StatedHousingCap(grid) > 0 /\ stats.population = StatedHousingCap(grid)) =>
            (stats.population - prevStats.population) * RateUnit * 1000
              <= StatedPopSum(grid, BuildingType) * growthRate * bonus * PopUnit

\* C6 witness: a tick with a stake and a voted growth rate, in which housing
\* below its capacity grew by popGen x level x growthRate x (1 + staked/1000)
C6_Witness ==
  /\ lastOp = "tick"
  /\ web3State.stakedSky > 0
  /\ gameModifiers.growthRate # RateUnit
  /\ stats.population > prevStats.population
  /\ stats.population < StatedHousingCap(grid)

\* C11 as stated: for place, demolish and upgrade the fund check and the
\* deduction are evaluated together: under every interleaving with each other
\* and with ticks, a cost is deducted only when money at the moment of the
\* deduction is at least that cost, so none of them takes money below zero.
C11_DeductionOnlyWhenAffordable ==
  lastOp \in {"place", "demolish", "upgrade"} =>
    /\ prevStats.money >= prevStats.money - stats.money
    /\ stats.money >= 0

\* a goal's target is met on the new stats of a tick, or on the number of
\* occupied tiles of the goal's buildingType
StatedGoalMet(goal, newStats, g) ==
  CASE goal.targetType = "money" -> newStats.money >= goal.targetValue
    [] goal.targetType = "population" ->
         newStats.population >= goal.targetValue * PopUnit
    [] goal.targetType = "building_count" ->
         Cardinality({p \in Coords : /\ g[p].buildingType # "None"
                                     /\ g[p].buildingType = goal.buildingType})
           >= goal.targetValue
    [] OTHER -> FALSE

\* the goal slot holds a goal that is not completed
GoalOpen == IF currentGoal = NULL THEN FALSE ELSE ~currentGoal.completed

\* the goal slot holds a completed goal
GoalDone == IF currentGoal = NULL THEN FALSE ELSE currentGoal.completed

\* C12: at each tick an active goal that is not completed becomes completed
\* exactly when its target is met with >= on the tick's new stats (money or
\* population) or on the count of occupied tiles of its buildingType; every
\* other field of the goal stays the same, and the completion does not change
\* money (the reward is not paid).
C12_GoalCompletion ==
  [][GameTick =>
       /\ (stats'.money - stats.money) * RateUnit
            = StatedIncomeSum(grid, BuildingType) * gameModifiers.taxRate
       /\ IF GoalOpen
          THEN currentGoal' =
                 [currentGoal EXCEPT !.completed = StatedGoalMet(currentGoal, stats', grid)]
          ELSE currentGoal' = currentGoal]_vars

\* C12 witness: a tick took population from 0 to exactly the goal's target 5
\* and completed the goal, with money as it was
C12_Witness ==
  /\ lastOp = "tick"
  /\ GoalDone
  /\ currentGoal.targetType = "population"
  /\ prevStats.population = 0
  /\ stats.population = currentGoal.targetValue * PopUnit
  /\ stats.money = prevStats.money

\* C13: claiming a completed goal adds exactly its reward to money, empties
\* the goal slot and requests a new goal; a claim with no goal or with a goal
\* that is not completed changes nothing; a reward is paid at most once per
\* goal: money rises only by a claim that empties the slot, and the slot is
\* refilled only by a goal that arrives.
C13_ClaimRule ==
  [][/\ GoalClaim =>
          IF GoalDone
          THEN /\ stats' = [stats EXCEPT !.money = stats.money + currentGoal.reward]
               /\ currentGoal' = NULL
               /\ goalFetch.phase = "idle" /\ goalFetch'.phase = "calling"
               /\ isGeneratingGoal'
          ELSE UNCHANGED <<stateVars, goalFetch>>
     /\ stats'.money > stats.money => GoalClaim /\ GoalDone /\ currentGoal' = NULL
     /\ (currentGoal = NULL /\ currentGoal' # NULL) => GoalCycleArrives]_vars

\* C13 witness: a claim paid the reward 300 of a completed money goal, emptied
\* the slot and a new goal is being requested
C13_Witness ==
  /\ lastOp = "claim"
  /\ stats.money = prevStats.money + 300
  /\ currentGoal = NULL
  /\ isGeneratingGoal
  /\ goalFetch.phase = "calling"

\* the modifier values the specification states for each effect kind (tenths);
\* a field the effect does not name keeps its value
StatedTaxRate(e, old) ==
  IF e = "tax_break" THEN 12 ELSE IF e = "austerity" THEN 8 ELSE old
StatedGrowthRate(e, old) ==
  IF e = "population_boom" THEN 15
  ELSE IF e = "austerity" THEN 8
  ELSE IF e = "festival" THEN 20
  ELSE old

\* the option chosen by the vote that was just logged: the VOTE transaction is
\* the last but one of the log
LoggedChoice(txs) == txs[Len(txs) - 1].details

\* C15: a vote overwrites the modifiers with the fixed values of the chosen
\* effect (tax_break: taxRate 1.2; population_boom: growthRate 1.5; austerity:
\* both 0.8; festival: growthRate 2.0 and money lowered by exactly 500 in the
\* same step), whatever the modifiers were before, so that a repeated vote
\* gives the values of a single one; and no step other than a vote changes
\* taxRate or growthRate
C15_VoteOverwrites ==
  [][/\ (GovVote /\ activeProposal # NULL) =>
          LET e == LoggedChoice(transactions')
          IN /\ e \in {activeProposal.options[1], activeProposal.options[2]}
             /\ gameModifiers'.taxRate = StatedTaxRate(e, gameModifiers.taxRate)
             /\ gameModifiers'.growthRate = StatedGrowthRate(e, gameModifiers.growthRate)
             /\ stats'.money = stats.money - (IF e = "festival" THEN 500 ELSE 0)
     /\ gameModifiers' # gameModifiers => lastOp' = "vote"]_vars

\* festival voted twice: growthRate is 2.0 as after one vote, money is lower
\* by 500 for each of the two votes
C15_Witness ==
  /\ lastOp = "vote"
  /\ Len(transactions) = 4
  /\ transactions[1].details = "festival"
  /\ transactions[3].details = "festival"
  /\ gameModifiers = [taxRate |-> RateUnit, growthRate |-> 20]
  /\ stats.money = INITIAL_MONEY - 1000

\* C16: one vote on the active proposal applies the effect of the chosen option
\* and empties the slot in the same step (logging the VOTE and the DEPLOY
\* transaction), so that a further vote finds no proposal; a vote with no
\* active proposal changes nothing: no modifier, no money, no transaction
C16_SingleVote ==
  [][GovVote =>
       IF activeProposal # NULL
       THEN LET e == LoggedChoice(transactions')
            IN /\ activeProposal' = NULL
               /\ Len(transactions') = Len(transactions) + 2
               /\ gameModifiers' = [taxRate |-> StatedTaxRate(e, gameModifiers.taxRate),
                                    growthRate |-> StatedGrowthRate(e, gameModifiers.growthRate)]
               /\ stats' = [stats EXCEPT !.money = stats.money - (IF e = "festival" THEN 500 ELSE 0)]
       ELSE UNCHANGED <<stateVars, envVars, throttleVars>>]_vars

\* a vote for austerity, then a second vote that found the slot empty
C16_Witness ==
  /\ lastOp = "voteIgnored"
  /\ activeProposal = NULL
  /\ Len(transactions) = 2
  /\ transactions[1] = [type |-> "VOTE", details |-> "austerity", block |-> transactions[1].block]
  /\ gameModifiers = [taxRate |-> 8, growthRate |-> 8]
  /\ stats.money = INITIAL_MONEY

\* the day has passed the expiresAt of the proposal in the slot
Expired == IF activeProposal = NULL THEN FALSE ELSE stats.day > activeProposal.expiresAt

ProposalEnters ==
  IF activeProposal' = NULL THEN FALSE
  ELSE IF activeProposal = NULL THEN TRUE
  ELSE activeProposal'.id # activeProposal.id

\* C18: a generated proposal enters the slot only when the wallet is connected
\* and the slot is empty at that moment, so an active proposal is never
\* replaced by another generated proposal
C18_ProposalEntersEmptySlot ==
  [][ProposalEnters => activeProposal = NULL /\ web3State.isConnected]_vars

\* the proposal the specification states for a generation result with at
\* least two options, requested with the stats snapshot of day
StatedProposal(data, day, id) ==
  [id |-> id, title |-> data.title,
   options |-> <<data.options[1], data.options[2]>>,
   expiresAt |-> day + 5, votes |-> <<0, 0>>, status |-> "active", audit |-> NULL]

\* the result is rejected: no result, or fewer than two options
Rejected(data) == IF data = NULL THEN TRUE ELSE Len(data.options) < 2

\* C19: every proposal in the slot has exactly two options, votes [0,0] and
\* status active; a generation result with fewer than two options leaves the
\* slot as it was, and any other result is stored with its first two options
\* and expiresAt = the day of the request's stats snapshot + 5
C19_ProposalShape ==
  [][/\ activeProposal' # NULL =>
          /\ Len(activeProposal'.options) = 2
          /\ activeProposal'.votes = <<0, 0>>
          /\ activeProposal'.status = "active"
     /\ \A c \in proposalCalls, data \in GovProposalPayloads \cup {NULL} :
          (ProposalResult(c, data) /\ Render) =>
             IF Rejected(data)
             THEN activeProposal' = activeProposal
             ELSE activeProposal' = StatedProposal(data, c.day, activeProposal'.id)]_vars

\* a result with three options, requested by a tick on day 1 and stored on a
\* later day with its first two options
C19_Witness ==
  /\ lastOp = "proposalResult"
  /\ activeProposal # NULL
  /\ activeProposal.title = "growth"
  /\ activeProposal.options = <<"population_boom", "austerity">>
  /\ activeProposal.id[2] = "tick"
  /\ activeProposal.expiresAt = 6
  /\ stats.day = 3

\* the proposal in the slot has an audit result
Audited == IF activeProposal = NULL THEN FALSE ELSE activeProposal.audit # NULL

\* the audit calls still in flight
OpenAudits == {i \in DOMAIN auditCalls : auditCalls[i].open}

\* an audit request that makes no service call and changes no state
AuditNoOp == UNCHANGED <<stateVars, envVars, throttleVars>>

\* C20 as stated: an audit request is a no-op while an audit is running, when
\* the proposal already has an audit result and when no proposal is active, so
\* that no two audit calls are ever made for the same proposal
C20_OneAuditPerProposal ==
  [][/\ (GovAudit /\ (isAuditing \/ Audited \/ activeProposal = NULL)) => AuditNoOp
     /\ \A i, j \in DOMAIN auditCalls' :
          i # j => auditCalls'[i].id # auditCalls'[j].id]_vars

\* C20 amended: an audit request is a no-op while an audit is running, when the
\* proposal already has an audit result and when no proposal is active; a call
\* is made only for the active proposal, when it has no result and no call is
\* in flight, so at most one audit call is in flight at a time; a proposal
\* whose audit returned no result can be audited again
C20_OneAuditInFlight ==
  [][/\ (GovAudit /\ (isAuditing \/ Audited \/ activeProposal = NULL)) => AuditNoOp
     /\ auditCalls' # auditCalls /\ Len(auditCalls') > Len(auditCalls) =>
          /\ activeProposal # NULL /\ ~Audited /\ ~isAuditing
          /\ OpenAudits = {}
          /\ auditCalls' = Append(auditCalls, [id |-> activeProposal.id, open |-> TRUE])
     /\ Cardinality({i \in DOMAIN auditCalls' : auditCalls'[i].open}) <= 1]_vars

\* a second audit call for the proposal whose first call returned no result
C20_Witness ==
  /\ lastOp = "audit"
  /\ Len(auditCalls) = 2
  /\ auditCalls[1].id = auditCalls[2].id
  /\ ~auditCalls[1].open
  /\ auditCalls[2].open
  /\ isAuditing
  /\ activeProposal # NULL
  /\ ~Audited

\* C21: the token balance and the staked amount are never negative, whatever
\* amounts (negative, zero, positive) are passed to buy, sell, stake, unstake
C21_TokensNonNegative ==
  /\ web3State.skyBalance >= 0
  /\ web3State.stakedSky >= 0

\* an amount in whole tokens (the amounts typed are whole numbers)
Whole(amount) == amount \div TokenUnit

\* C22: buy(amount) succeeds exactly when money >= amount x price, then lowers
\* money by amount x price and raises the balance by amount; sell(amount)
\* succeeds exactly when balance >= amount, then raises money by amount x price
\* and lowers the balance by amount; a rejected swap changes neither the stats
\* nor the token state; a sell of the amount just bought, at the same price,
\* restores money and balance
C22_SwapRule ==
  [][\A amount \in TokenAmounts :
       /\ (handleSwap("buy", amount) /\ SyncRefs) =>
            IF stats.money * PriceUnit >= Whole(amount) * web3State.skyPrice
            THEN /\ (stats.money - stats'.money) * PriceUnit = Whole(amount) * web3State.skyPrice
                 /\ stats' = [stats EXCEPT !.money = stats'.money]
                 /\ web3State' = [web3State EXCEPT !.skyBalance = web3State.skyBalance + amount]
            ELSE UNCHANGED <<stats, web3State>>
       /\ (handleSwap("sell", amount) /\ SyncRefs) =>
            IF web3State.skyBalance >= amount
            THEN /\ (stats'.money - stats.money) * PriceUnit = Whole(amount) * web3State.skyPrice
                 /\ stats' = [stats EXCEPT !.money = stats'.money]
                 /\ web3State' = [web3State EXCEPT !.skyBalance = web3State.skyBalance - amount]
            ELSE UNCHANGED <<stats, web3State>>
       /\ ( /\ lastOp = "buy"
            /\ (prevStats.money - stats.money) * PriceUnit = Whole(amount) * web3State.skyPrice
            /\ handleSwap("sell", amount) /\ SyncRefs ) =>
            /\ stats'.money = prevStats.money
            /\ web3State'.skyBalance = web3State.skyBalance - amount]_vars

\* C23: stake(amount) moves amount from the balance to the stake exactly when
\* balance >= amount, unstake(amount) moves it back exactly when staked >=
\* amount; a rejected call changes nothing and no call changes balance +
\* staked or the stats; the unstake(amount) that follows an accepted
\* stake(amount) is accepted too (staked >= amount after the stake), so that
\* it restores the prior balance and stake
C23_StakeRule ==
  [][\A amount \in TokenAmounts :
       /\ (handleStake(amount) /\ SyncRefs) =>
            /\ web3State' = IF web3State.skyBalance >= amount
                            THEN [web3State EXCEPT !.skyBalance = web3State.skyBalance - amount,
                                                   !.stakedSky = web3State.stakedSky + amount]
                            ELSE web3State
            /\ web3State'.skyBalance + web3State'.stakedSky
                 = web3State.skyBalance + web3State.stakedSky
            /\ UNCHANGED stats
            /\ web3State.skyBalance >= amount => web3State'.stakedSky >= amount
       /\ (handleUnstake(amount) /\ SyncRefs) =>
            /\ web3State' = IF web3State.stakedSky >= amount
                            THEN [web3State EXCEPT !.skyBalance = web3State.skyBalance + amount,
                                                   !.stakedSky = web3State.stakedSky - amount]
                            ELSE web3State
            /\ web3State'.skyBalance + web3State'.stakedSky
                 = web3State.skyBalance + web3State.stakedSky
            /\ UNCHANGED stats]_vars

\* C24: while the wallet is connected a tick raises blockNumber by exactly 1
\* and the balance by (population / 100) x 0.1, with the population of the
\* snapshot before this tick (not the one the tick writes); while it is not
\* connected a tick leaves the whole token state unchanged
C24_Mining ==
  [][MineTick =>
       IF web3State.isConnected
       THEN /\ web3State'.blockNumber = web3State.blockNumber + 1
            /\ (web3State'.skyBalance - web3State.skyBalance) * PopUnit * 1000
                 = stats.population * TokenUnit
            /\ web3State'.stakedSky = web3State.stakedSky
            /\ web3State'.isConnected
       ELSE web3State' = web3State]_vars

\* connected with 5 people: the tick takes the population to 10 and mines
\* 0.005 SKY, the amount for 5 people
C24_Witness ==
  /\ lastOp = "tick"
  /\ web3State.isConnected
  /\ prevStats.population = 5 * PopUnit
  /\ stats.population = 10 * PopUnit
  /\ web3State.skyBalance = 100 * TokenUnit + 500

\* C25: the price is at least 10 in every state; a tick moves it by at most 1
\* in either direction before the floor of 10 is applied; no other step
\* changes the price
C25_PriceWalk ==
  [][/\ web3State'.skyPrice >= 10 * PriceUnit
     /\ PriceTick =>
          \E d \in (0 - PriceUnit) .. PriceUnit :
             web3State'.skyPrice = Max(10 * PriceUnit, web3State.skyPrice + d)
     /\ web3State'.skyPrice # web3State.skyPrice => PriceTick]_vars

\* the 41st tick since the wallet was connected leaves the price at 10: forty
\* moves of -1 took it from 50 to 10 and this tick's move was cut by the floor
C25_Witness ==
  /\ lastOp = "tick"
  /\ web3State.blockNumber = 1024500 + 41
  /\ web3State.skyPrice = 10 * PriceUnit

\* C26: a proposal request is sent only when no proposal is active and the
\* player is connected, and at least 30 seconds after every earlier request
\* (those still in flight, and the one recorded in lastProposalTime)
C26_ProposalThrottle ==
  [][\A c \in proposalCalls' \ proposalCalls :
       /\ activeProposal = NULL
       /\ web3State'.isConnected
       /\ c.at - lastProposalTime >= 30000
       /\ \A e \in proposalCalls : c.at - e.at >= 30000]_vars

\* C27: a news request is sent only by a tick, only with AI enabled and only
\* 60 seconds or more after the request before it, whose time lastNewsTime
\* holds: every request sets lastNewsTime to its time and a step that sends
\* none leaves lastNewsTime as it was
C27_NewsThrottle ==
  [][/\ NewsTick =>
          IF newsCalls' > newsCalls
          THEN /\ aiEnabled
               /\ now' - lastNewsTime >= 60000
               /\ lastNewsTime' = now'
               /\ newsCalls' = newsCalls + 1
          ELSE lastNewsTime' = lastNewsTime
     /\ newsCalls' > newsCalls => NewsTick
     /\ lastNewsTime' # lastNewsTime => newsCalls' > newsCalls]_vars

\* two requests in flight, the second sent exactly 60 seconds after the first
C27_Witness ==
  /\ lastOp = "tick"
  /\ newsCalls = 2
  /\ lastNewsTime = now
  /\ now = 60000 + TICK_RATE_MS + 60000

\* the game runs with AI enabled and the goal slot is empty
AwaitingGoal == gameStarted /\ aiEnabled /\ currentGoal = NULL

\* C28: while the game runs with AI enabled and the goal slot is empty, a goal
\* request is in flight or a retry is scheduled; a failed request schedules
\* the retry for 60 seconds later, the retry fires no earlier and sends a new
\* request; so, the service succeeding in the end, a goal becomes active
C28_GoalRetry ==
  /\ [](AwaitingGoal => goalFetch.phase \in {"calling", "retry"})
  /\ [][GoalFails => goalFetch' = [phase |-> "retry", retryAt |-> now + 60000]]_vars
  /\ [][RetryFires => now >= goalFetch.retryAt /\ goalFetch'.phase = "calling"]_vars
  /\ (AwaitingGoal ~> currentGoal # NULL)

\* a goal adopted from the request sent by the second retry, at least 120
\* seconds after the start
C28_Witness ==
  /\ lastOp = "goalResult"
  /\ currentGoal # NULL
  /\ steps = 2
  /\ now >= 60000 + 120000


\* C30: external generation calls never stall the tick loop.  While goal,
\* news, proposal or audit calls are in flight, slow, failed or never
\* answered, the interval stays enabled and every firing advances the
\* simulation by one day and one tick of time; with a fair interval alone
\* (no call need ever be answered) a started game reaches the last day.
C30_TickNeverStalls ==
  /\ [](gameStarted /\ stats.day < MaxLoopDay => ENABLED LoopTick)
  /\ [][LoopTick => stats'.day = stats.day + 1 /\ now' = now + TICK_RATE_MS]_vars
  /\ (gameStarted ~> stats.day = MaxLoopDay)
C30_Witness ==
  /\ lastOp = "tick"
  /\ stats.day = MaxLoopDay
  /\ goalFetch.phase = "calling"
  /\ newsCalls > 0
  /\ proposalCalls # {}
  /\ \E i \in DOMAIN auditCalls : auditCalls[i].open

\* a response body that is not JSON, or is JSON and leaves out one of the
\* required fields (of those the bodies of SpecPayload leave out)
Malformed(text, required) ==
  IF text = NULL THEN TRUE
  ELSE IF ~text.json THEN TRUE
  ELSE \E f \in required : text.data[f] = "undefined"

\* C31: a generation result with a malformed payload (not JSON, or JSON that
\* leaves out a required field) is a failure for all four kinds of result: no
\* goal, news item, proposal or audit built from it is adopted into the state
C31_MalformedIsFailure ==
  [][/\ \A text \in GoalBodies :
          (Malformed(text, {"targetType"})
             /\ GoalResult(parseJSON(text)) /\ Render) => currentGoal' = currentGoal
     /\ \A text \in NewsBodies :
          (Malformed(text, {"text", "type"})
             /\ NewsResult(parseJSON(text)) /\ Render) => newsFeed' = newsFeed
     /\ \A c \in proposalCalls, text \in ProposalBodies :
          (Malformed(text, {"title"})
             /\ ProposalResult(c, parseJSON(text)) /\ Render) =>
                activeProposal' = activeProposal
     /\ \A i \in DOMAIN auditCalls, text \in AuditBodies :
          (Malformed(text, {"risk"})
             /\ AuditResult(i, parseJSON(text)) /\ Render) =>
                activeProposal' = activeProposal /\ newsFeed' = newsFeed]_vars

\* the last operation was rejected for insufficient funds
FundsRejected ==
  lastOp \in {"placeRejected", "demolishRejected", "upgradeRejected", "buyRejected"}

\* C32: every action rejected for insufficient funds (place, demolish,
\* upgrade, buy) appends a notice to the news feed and changes nothing else:
\* grid, money, token state and selected tile stay as they were
C32_RejectionNotice ==
  [][FundsRejected' =>
       /\ Len(newsFeed') = Len(newsFeed) + 1
       /\ SubSeq(newsFeed', 1, Len(newsFeed)) = newsFeed
       /\ newsFeed'[Len(newsFeed')].type = "negative"
       /\ UNCHANGED <<grid, stats, web3State, selectedTilePos>>]_vars

\* C33: the grid has exactly one tile for each coordinate of the 15 x 15
\* range, each tile's stored x and y equal its position, every level is at
\* least 1 and every empty tile has level 1; a level changes only by an
\* upgrade of the selected tile (plus 1) and by a demolition (reset to 1)
C33_GridShape ==
  /\ [](/\ GRID_SIZE = 15
        /\ DOMAIN grid = Coords
        /\ \A p \in Coords :
              /\ grid[p].x = p[1]
              /\ grid[p].y = p[2]
              /\ grid[p].level >= 1
              /\ grid[p].buildingType = "None" => grid[p].level = 1)
  /\ [][\A p \in Coords :
          grid'[p].level # grid[p].level =>
            \/ /\ lastOp' = "upgrade"
               /\ p = selectedTilePos
               /\ grid'[p].level = grid[p].level + 1
               /\ grid'[p].buildingType = grid[p].buildingType
            \/ /\ lastOp' = "demolish"
               /\ grid'[p].level = 1
               /\ grid'[p].buildingType = "None"]_vars
\* a building placed, upgraded to level 2 and demolished: the grid is the
\* initial grid again after three writes
C33_Witness ==
  /\ lastOp = "demolish"
  /\ gridWrites = 3
  /\ grid = createInitialGrid

\* a log of capacity cap after item is appended at its end: when full, the
\* oldest entry is dropped and the others keep their order
Pushed(log, cap, item) == Append(IF Len(log) >= cap THEN Tail(log) ELSE log, item)

\* C34: the news feed never holds more than 13 items and the transaction log
\* never more than 20; both only grow by appending at the end and, when full,
\* drop their oldest entry first, keeping the others in their order (a step
\* appends at most one news item and at most two transactions)
C34_BoundedLogs ==
  /\ [](Len(newsFeed) <= 13 /\ Len(transactions) <= 20)
  /\ [][/\ newsFeed' # newsFeed =>
            newsFeed' = Pushed(newsFeed, 13, newsFeed'[Len(newsFeed')])
        /\ transactions' # transactions =>
            \/ transactions' =
                 Pushed(transactions, 20, transactions'[Len(transactions')])
            \/ /\ Len(transactions') >= 2
               /\ transactions' =
                    Pushed(Pushed(transactions, 20,
                                  transactions'[Len(transactions') - 1]),
                           20, transactions'[Len(transactions')])]_vars
\* both logs are full and have dropped entries: the welcome item has left the
\* feed and the first sale is now the oldest transaction
C34_Witness ==
  /\ lastOp = "buy"
  /\ steps >= 21
  /\ Len(newsFeed) = 13
  /\ newsFeed[1].text # "welcome"
  /\ Len(transactions) = 20
  /\ transactions[1].details = "Sell"
  /\ transactions[2].details = "Buy"

\* the step is the operation op (and not the render of queued updates, which
\* leaves lastOp as it was)
Applies(op) == lastOp' = op /\ ~AsyncRender

\* the amount a step adds to money, as the operation computed it from the
\* state of the last render
MoneyAmount ==
  CASE Applies("tick")     -> DailyIncome(gridRef, modifiersRef)
    [] Applies("place")    -> 0 - BUILDINGS[selectedTool].cost
    [] Applies("demolish") -> 0 - 5
    [] Applies("upgrade")  ->
         0 - UpgradeCost(gridRef[selectedTilePos].buildingType,
                         LevelOf(gridRef[selectedTilePos]))
    [] Applies("buy")      ->
         0 - SwapCost(web3State'.skyBalance - web3State.skyBalance, web3Ref.skyPrice)
    [] Applies("sell")     ->
         SwapCost(web3State.skyBalance - web3State'.skyBalance, web3Ref.skyPrice)
    [] Applies("claim")    -> goalRef.reward
    [] Applies("vote")     ->
         0 - EffectCost(IF handleVote(0) THEN activeProposalRef.options[1]
                        ELSE activeProposalRef.options[2])
    [] OTHER               -> 0

\* C35: no update to money is lost: every tick, place, demolish, upgrade,
\* buy, sell, reward claim and festival vote adds its amount to the latest
\* money value, also when it runs on the closures of an older render, so
\* money is always the initial money plus the amounts of the applied
\* operations
C35_NoLostUpdate == [][stats'.money = stats.money + MoneyAmount]_vars
\* an operation of each kind applied to a money value that the last render
\* had not seen: after Commercial was placed (money 800) a tick has added the
\* income of 15 and the demolition that follows takes 5 from 815
C35_Witness ==
  /\ lastOp = "demolish"
  /\ ~Synced
  /\ statsRef.money = 800
  /\ prevStats.money = 815
  /\ stats.money = 810

\* C36: an audit result is attached only to the proposal that was audited:
\* when that proposal was voted on or replaced while the audit was in flight
\* the result is dropped, it is never attached to a different proposal and it
\* never puts a proposal back into an empty slot; attaching the result
\* changes no other field of the proposal
C36_AuditAttachment ==
  [][\A i \in DOMAIN auditCalls, result \in GovAuditPayloads \cup {NULL} :
       (AuditResult(i, result) /\ Render) =>
          IF /\ result # NULL
             /\ activeProposal # NULL
             /\ (IF activeProposal = NULL THEN FALSE
                 ELSE activeProposal.id = auditCalls[i].id)
          THEN activeProposal' = [activeProposal EXCEPT !.audit = result]
          ELSE activeProposal' = activeProposal]_vars

\* C37: once a goal is adopted it stays the active goal until the player
\* claims it: no generation result replaces it, its completed flag only goes
\* from false to true and never back (also when money or population later
\* falls below the target), and its other fields never change
C37_GoalStays ==
  [][currentGoal # NULL =>
       \/ currentGoal' = currentGoal
       \/ /\ ~currentGoal.completed
          /\ lastOp' = "tick"
          /\ currentGoal' = [currentGoal EXCEPT !.completed = TRUE]
       \/ /\ currentGoal.completed
          /\ lastOp' = "claim"
          /\ currentGoal' = NULL]_vars
\* a completed money goal after a tick that found money below the target
C37_Witness ==
  /\ lastOp = "tick"
  /\ currentGoal # NULL
  /\ currentGoal.completed
  /\ currentGoal.targetType = "money"
  /\ prevStats.money < currentGoal.targetValue
  /\ stats.money < currentGoal.targetValue

\* the tile at p is occupied by a building other than a Road
Building(g, p) == g[p].buildingType \notin {"None", "Road"}

\* C38: whenever a tile is selected, that tile is occupied and is not a Road
\* (the selection is cleared by changing the tool, by placing and by
\* demolishing the selected tile); hence an upgrade is never applied to an
\* empty tile or a Road, and every Road tile has level 1
C38_SelectionIsBuilding ==
  /\ [](/\ selectedTilePos # NULL => Building(grid, selectedTilePos)
        /\ \A p \in Coords : grid[p].buildingType = "Road" => grid[p].level = 1)
  /\ [][/\ lastOp' \in {"tool", "place"} => selectedTilePos' = NULL
        /\ (lastOp' = "demolish" /\ selectedTilePos # NULL) =>
              IF grid'[selectedTilePos].buildingType = "None"
              THEN selectedTilePos' = NULL
              ELSE selectedTilePos' = selectedTilePos
        /\ lastOp' = "upgrade" =>
              /\ selectedTilePos # NULL
              /\ Building(grid, selectedTilePos)
              /\ \A p \in Coords : grid'[p] # grid[p] => p = selectedTilePos]_vars
\* a selected house upgraded to level 2 next to a Road
C38_Witness ==
  /\ lastOp = "upgrade"
  /\ selectedTilePos # NULL
  /\ grid[selectedTilePos].level = 2
  /\ \E p \in Cells : grid[p].buildingType = "Road"

\* C39: population is never negative in any reachable state, for every
\* combination of grid, modifiers (growthRate 0.8 included) and staked amount,
\* and only a tick changes population
C39_PopulationNonNegative ==
  /\ [](stats.population >= 0)
  /\ [][stats'.population # stats.population => lastOp' = "tick" /\ stats'.day = stats.day + 1]_vars
\* a population of 4 (one house under growthRate 0.8) that lost its housing:
\* the tick takes 5 and stops at 0
C39_Witness ==
  /\ lastOp = "tick"
  /\ gameModifiers.growthRate = 8
  /\ HousingCap(grid) = 0
  /\ prevStats.population = 4 * PopUnit
  /\ stats.population = 0

====
